---------------------------- MODULE Spec2Model ----------------------------
(***************************************************************************)
(* The refinement engine of math-speak-converter (src/src/services/mcp.ts) *)
(* as a state machine: useMCP invocations, the process-wide mcpCache, the  *)
(* timeout race and the fallback branch.  Strings are sequences of tokens; *)
(* confidences are integers in tenths (8 is 0.8); time is in milliseconds. *)
(***************************************************************************)
EXTENDS Integers, Sequences, FiniteSets, TLC

VARIABLES
    openaiClient,  \* openai.ts: the module-level client, NULL until initialised
    mcpCache,      \* mcp.ts: Map<string, CacheEntry>, a function on the keys present
    now,           \* Date.now()
    ticks,         \* number of clock advances so far (bounds the clock)
    call,          \* per invocation: the arguments of the useMCP call
    proc,          \* per invocation: the locals of processingPromise and its position
    race,          \* per invocation: the timer and what the caller of useMCP got
    hist,          \* per invocation: history of what the invocation has done
    cacheWriter,   \* history: for each key present, the invocation that stored it
    parsed,        \* the last call of extractMCPComponents on its own: text and record
    sinceClear,    \* history: "untouched" after clearMCPCache until the cache is
                   \* written ("written") or useMCP is called ("none")
    stats,         \* what the last call of getMCPCacheStats returned
    latexCheck,    \* the last call of validateLatexMCP on its own: text and outcome
    vision         \* the call of imageToLatexMCP: its position and what it has done

vars == <<openaiClient, mcpCache, now, ticks, call, proc, race, hist, cacheWriter, parsed,
          sinceClear, stats, latexCheck, vision>>

-----------------------------------------------------------------------------
(* Bounds of the model *)

NumInv == 2     \* invocations that can be under way at once
MaxIter == 2    \* largest maxIterations option a call passes
MaxTicks == 1   \* clock advances in a behaviour
MaxAgeTicks == 3  \* clock advances in a behaviour of SpecTTL

Inv == 1..NumInv

-----------------------------------------------------------------------------
(* Program constants *)

CACHE_TTL_MS == 3600000
DefaultTimeout == 30000
DefaultConfidence == 5
FallbackConfidence == 5
DefaultThreshold == 8

NULL == "null"
NoConf == -999
NoFeedback == <<"undefined">>
DefaultFeedback == <<"The result needs improvement.">>
FallbackMarker == "[FALLBACK MODEL] "

Gpt4o == <<"gpt-4o">>
Gpt35 == <<"gpt-3.5-turbo">>
NoModel == <<>>

-----------------------------------------------------------------------------
(* Strings *)

IsSpace(c) == c = " "

RECURSIVE TrimLeft(_)
TrimLeft(s) ==
    IF s = <<>> THEN <<>>
    ELSE IF IsSpace(Head(s)) THEN TrimLeft(Tail(s)) ELSE s

RECURSIVE TrimRight(_)
TrimRight(s) ==
    IF s = <<>> THEN <<>>
    ELSE IF IsSpace(s[Len(s)]) THEN TrimRight(SubSeq(s, 1, Len(s) - 1)) ELSE s

Trim(s) == TrimRight(TrimLeft(s))

NumStr(n) ==
    CASE n = 0 -> "0" [] n = 1 -> "1" [] n = 2 -> "2" [] n = 3 -> "3"
      [] n = 4 -> "4" [] n = 5 -> "5" [] n = 6 -> "6" [] n = 7 -> "7"
      [] n = 8 -> "8" [] n = 9 -> "9" [] OTHER -> "many"

-----------------------------------------------------------------------------
(* Response parser *)

OpenTag(kind) ==
    CASE kind = "thinking" -> {"<thinking>", "<THINKING>"}
      [] kind = "confidence" -> {"<confidence>", "<CONFIDENCE>"}
      [] kind = "result" -> {"<result>", "<RESULT>"}

CloseTag(kind) ==
    CASE kind = "thinking" -> {"</thinking>", "</THINKING>"}
      [] kind = "confidence" -> {"</confidence>", "</CONFIDENCE>"}
      [] kind = "result" -> {"</result>", "</RESULT>"}

Least(S) == CHOOSE x \in S : \A y \in S : x <= y

\* The positions of the close tags after position i
Closes(kind, s, i) == {j \in (i+1)..Len(s) : s[j] \in CloseTag(kind)}

\* The positions of the open tags that have a close tag after them
Opens(kind, s) == {i \in 1..Len(s) : s[i] \in OpenTag(kind) /\ Closes(kind, s, i) # {}}

MatchAt(kind, s, i) == <<i, Least(Closes(kind, s, i))>>

MatchAmong(kind, s, opens) ==
    IF opens = {} THEN <<0, 0>> ELSE MatchAt(kind, s, Least(opens))

\* The positions (i, j) of the leftmost open tag that has a close tag after it
\* and of the nearest such close tag; <<0, 0>> when the pattern does not match.
TagMatch(kind, s) == MatchAmong(kind, s, Opens(kind, s))

\* match[1].trim(), or '' without a match
Group(s, m) == IF m[1] = 0 THEN <<>> ELSE Trim(SubSeq(s, m[1] + 1, m[2] - 1))

Captured(kind, s) == Group(s, TagMatch(kind, s))

\* parseFloat of a captured text, in tenths: the number its first token
\* starts with; NoConf stands for NaN
ParseFloat(s) ==
    IF s = <<>> THEN NoConf
    ELSE CASE s[1] = "0" -> 0
           [] s[1] = "0.0" -> 0
           [] s[1] = "0.1" -> 1
           [] s[1] = "0.5" -> 5
           [] s[1] = "0.5abc" -> 5
           [] s[1] = "0.9" -> 9
           [] s[1] = "1.0" -> 10
           [] s[1] = "1" -> 10
           [] s[1] = "1.1" -> 11
           [] s[1] = "1.5" -> 15
           [] s[1] = "2" -> 20
           [] s[1] = "-0.1" -> -1
           [] s[1] = "-1" -> -10
           [] OTHER -> NoConf

\* Lines 303-310 with the bounds of the range excluded
AcceptedExclusive(n) ==
    IF n # NoConf /\ n > 0 /\ n < 10 THEN n ELSE DefaultConfidence

\* lines 303-310: the parsed value when it is a number of [0, 1]
Accepted(n) ==
    IF n # NoConf /\ n >= 0 /\ n <= 10 THEN n ELSE DefaultConfidence

ParsedConfidence(s) == Accepted(ParseFloat(Captured("confidence", s)))

\* Lines 317-321 with the whole response returned untrimmed
ComponentsUntrimmed(response, thinking, result, confidence) ==
    IF thinking = <<>> /\ result = <<>>
    THEN [thinking |-> <<>>, result |-> response, confidence |-> confidence]
    ELSE [thinking |-> thinking, result |-> result, confidence |-> confidence]

\* Lines 317-321 with the default confidence in the whole-response return
ComponentsDefaultConfidence(response, thinking, result, confidence) ==
    IF thinking = <<>> /\ result = <<>>
    THEN [thinking |-> <<>>, result |-> Trim(response), confidence |-> DefaultConfidence]
    ELSE [thinking |-> thinking, result |-> result, confidence |-> confidence]

\* lines 317-321
Components(response, thinking, result, confidence) ==
    IF thinking = <<>> /\ result = <<>>
    THEN [thinking |-> <<>>, result |-> Trim(response), confidence |-> confidence]
    ELSE [thinking |-> thinking, result |-> result, confidence |-> confidence]

extractMCPComponents(response) ==
    Components(response, Captured("thinking", response), Captured("result", response),
               ParsedConfidence(response))

-----------------------------------------------------------------------------
(* validateLatexMCP (math-mcp.ts), on a text given as a sequence of
   characters; a command such as \begin is one element *)

Letters == {"a", "b"}
Digits == {"1"}
CommandTokens == {"\\begin", "\\end", "\\x"}

Bump(c, open) == IF c = open THEN 1 ELSE 0

\* A balance that compares the totals only
bracketBalanceTotalsOnly(str, open, close, count) ==
    count + Cardinality({k \in 1..Len(str) : str[k] = open})
          - Cardinality({k \in 1..Len(str) : str[k] = close}) = 0

RECURSIVE bracketBalance(_, _, _, _)

\* lines 8-16: the scan from a count on (0 at the start)
bracketBalance(str, open, close, count) ==
    IF str = <<>> THEN count = 0
    ELSE IF count + Bump(Head(str), open) - Bump(Head(str), close) < 0 THEN FALSE
    ELSE bracketBalance(Tail(str), open, close,
                        count + Bump(Head(str), open) - Bump(Head(str), close))

\* The position of the first "}" at or after position from, 0 without one
NameEnd(s, from) ==
    IF \E j \in from..Len(s) : s[j] = "}"
    THEN Least({j \in from..Len(s) : s[j] = "}"})
    ELSE 0

\* lines 25-29: the names captured by /\\begin\{([^}]+)\}/g (tok = "\\begin")
\* or by the pattern of \end, from position i on, in the order of the text
RECURSIVE EnvNames(_, _, _)
EnvNames(s, tok, i) ==
    IF i > Len(s) THEN <<>>
    ELSE IF s[i] = tok /\ i + 1 <= Len(s) /\ s[i + 1] = "{" /\ NameEnd(s, i + 2) > i + 2
    THEN <<SubSeq(s, i + 2, NameEnd(s, i + 2) - 1)>> \o EnvNames(s, tok, NameEnd(s, i + 2) + 1)
    ELSE EnvNames(s, tok, i + 1)

\* lines 31-32
BalancedEnvironments(beginEnvs, endEnvs) ==
    /\ Len(beginEnvs) = Len(endEnvs)
    /\ \A i \in 1..Len(beginEnvs) : beginEnvs[i] = endEnvs[i]

\* line 35: /\\[a-zA-Z]+\s[a-zA-Z]/
hasUnresolvedCommands(s) ==
    \E i \in 1..Len(s), j \in 1..Len(s) :
        /\ s[i] \in CommandTokens
        /\ i < j
        /\ \A k \in (i + 1)..(j - 1) : s[k] \in Letters
        /\ IsSpace(s[j])
        /\ j + 1 <= Len(s)
        /\ s[j + 1] \in Letters

\* line 36: /[0-9][a-zA-Z]/
hasMissingOperators(s) ==
    \E i \in 1..Len(s) : s[i] \in Digits /\ i + 1 <= Len(s) /\ s[i + 1] \in Letters

\* lines 41-47: the checks in the order of the source, each with its finding
LatexChecks(s) ==
    << <<bracketBalance(s, "{", "}", 0), "unbalanced curly braces {}">>,
       <<bracketBalance(s, "[", "]", 0), "unbalanced square brackets []">>,
       <<bracketBalance(s, "(", ")", 0), "unbalanced parentheses ()">>,
       <<bracketBalance(s, "$", "$", 0), "unbalanced dollar signs $">>,
       <<BalancedEnvironments(EnvNames(s, "\\begin", 1), EnvNames(s, "\\end", 1)),
         "unbalanced LaTeX environments">>,
       <<~hasUnresolvedCommands(s), "commands without proper braces">>,
       <<~hasMissingOperators(s), "missing operators between numbers and variables">> >>

Failed(check) == ~check[1]

\* feedbackItems.join(', ')
RECURSIVE Join(_)
Join(items) ==
    IF items = <<>> THEN <<>>
    ELSE IF Len(items) = 1 THEN <<items[1][2]>>
    ELSE <<items[1][2], ", ">> \o Join(Tail(items))

\* lines 49-56
LatexOutcome(checks) ==
    IF SelectSeq(checks, Failed) = <<>>
    THEN [valid |-> TRUE, feedback |-> NoFeedback]
    ELSE [valid |-> FALSE,
          feedback |-> <<"LaTeX has issues: ">> \o Join(SelectSeq(checks, Failed)) \o <<".">>]

validateLatexMCP(latex) == LatexOutcome(LatexChecks(latex))

-----------------------------------------------------------------------------
(* Caller-supplied functions *)

Undefined == <<"undefined">>

\* toLowerCase, for the letters the replies use
LowerCase(c) == IF c = "A" THEN "a" ELSE c

ToLowerCase(s) == [k \in 1..Len(s) |-> LowerCase(s[k])]

\* processOutput: "trim" is (output) => output.trim(); "parse" raises on an
\* empty text, as a JSON.parse without a manual fallback does; "lower" is
\* (output) => output.toLowerCase().trim().
ProcessOutput(po, raw) ==
    CASE po = "trim" -> [threw |-> FALSE, value |-> Trim(raw)]
      [] po = "parse" -> [threw |-> raw = <<>>, value |-> Trim(raw)]
      [] po = "lower" -> [threw |-> FALSE, value |-> Trim(ToLowerCase(raw))]

\* validateResult: a pure function of the processed result.
\*   reject   always { valid: false, confidence: 1.0 }
\*   accept   always { valid: true, confidence: 1.0 }
\*   plain    { valid: text.length > 0 && !text.includes('\\') && !text.includes('$'),
\*              feedback } of converter.ts, which supplies no confidence
\*   exact    { valid: text === 'a', feedback, confidence: 1.0 }
\*   graded   { valid: true, confidence } with confidence 1.0 for "a" and 0 otherwise
\*   partial  as accept, but raises on a result that is not plain
\*   latex    validateLatexMCP, which supplies no confidence
IsPlain(r) == r # <<>> /\ \A k \in 1..Len(r) : r[k] \notin {"\\", "$"}

ValidateResult(v, r) ==
    CASE v = "reject" ->
           [threw |-> FALSE, valid |-> FALSE, feedback |-> NoFeedback, confidence |-> 10]
      [] v = "accept" ->
           [threw |-> FALSE, valid |-> TRUE, feedback |-> NoFeedback, confidence |-> 10]
      [] v = "plain" ->
           [threw |-> FALSE, valid |-> IsPlain(r),
            feedback |-> <<"Ensure all LaTeX commands are properly converted to natural language.">>,
            confidence |-> NoConf]
      [] v = "exact" ->
           [threw |-> FALSE, valid |-> r = <<"a">>,
            feedback |-> <<"Expected a.">>, confidence |-> 10]
      [] v = "graded" ->
           [threw |-> FALSE, valid |-> TRUE, feedback |-> NoFeedback,
            confidence |-> IF r = <<"a">> THEN 10 ELSE 0]
      [] v = "partial" ->
           [threw |-> ~IsPlain(r), valid |-> TRUE, feedback |-> NoFeedback, confidence |-> 10]
      [] v = "latex" ->
           [threw |-> FALSE, valid |-> validateLatexMCP(r).valid,
            feedback |-> validateLatexMCP(r).feedback, confidence |-> NoConf]

AlwaysInvalid(v) == \A r \in {<<>>, <<"a">>, <<"\\", "x">>} : ~ValidateResult(v, r).valid

-----------------------------------------------------------------------------
(* Arguments of a call, and the texts the model may answer with *)

Tasks == {<<"convert">>}
Inputs == {<<"x">>}
Temperatures == {3}

\* `${temperature}` for a temperature given in tenths
TempStr(t) ==
    CASE t = 0 -> "0" [] t = 1 -> "0.1" [] t = 2 -> "0.2" [] t = 3 -> "0.3"
      [] t = 4 -> "0.4" [] t = 5 -> "0.5" [] t = 6 -> "0.6" [] t = 7 -> "0.7"
      [] t = 8 -> "0.8" [] t = 9 -> "0.9" [] t = 10 -> "1" [] OTHER -> "NaN"

Args(tasks, inputs, models, fallbacks, caches, thresholds, procs, validators) ==
    [task : tasks, input : inputs, model : models, temperature : Temperatures,
     maxIterations : 1..MaxIter, fallbackModel : fallbacks, timeout : {DefaultTimeout},
     useCache : caches, confidenceThreshold : thresholds,
     processOutput : procs, validateResult : validators]

RespFull ==
    <<"<thinking>", "ok", "</thinking>", "<confidence>", "0.9", "</confidence>",
      "<result>", "a", "</result>">>
RespLatex ==
    <<"<thinking>", "ok", "</thinking>", "<result>", " ", "\\", "x", "</result>", " ">>
RespBare == <<" ", "\\", "x">>
RespEmpty == <<>>
RespUpper == <<"<result>", " ", "A", "</result>">>

Responses == {RespFull, RespLatex}

\* A key that leaves the temperature out
cacheKeyWithoutTemperature(a) ==
    a.task \o <<"_">> \o a.input \o <<"_">> \o a.model

cacheKey(a) ==
    a.task \o <<"_">> \o a.input \o <<"_">> \o a.model \o <<"_">> \o <<TempStr(a.temperature)>>

-----------------------------------------------------------------------------
(* State *)

NoResult ==
    [finalResult |-> Undefined, iterations |-> 0, reasoning |-> <<>>,
     initialResult |-> Undefined, confidence |-> NoConf, model |-> NoModel,
     processingTimeMs |-> 0]

NoRequest ==
    [kind |-> "none", model |-> NoModel, previousResult |-> <<>>,
     feedback |-> <<>>, previousThinking |-> <<>>, confidence |-> NoConf]

NoArgs ==
    [task |-> <<>>, input |-> <<>>, model |-> NoModel, temperature |-> 0,
     maxIterations |-> 0, fallbackModel |-> NoModel, timeout |-> 0,
     useCache |-> FALSE, confidenceThreshold |-> 0,
     processOutput |-> "trim", validateResult |-> "reject"]

NoText == <<"none">>

NoOut == [thinking |-> <<>>, result |-> <<>>, confidence |-> NoConf]

NoParse == [text |-> NoText, out |-> NoOut]

\* validateLatexMCP has not been called
NoLatexCheck == [latex |-> NoText, out |-> [valid |-> FALSE, feedback |-> <<"pending">>]]

\* getMCPCacheStats has not been called
NoStats == [size |-> -1, entries |-> {}, rightAfterClear |-> FALSE, expired |-> {}]

\* The locals of useMCP before processingPromise has started (lines 84-91)
IdleProc ==
    [pc |-> "idle", iterations |-> 0, currentReasoning |-> <<>>,
     initialResult |-> Undefined, processedResult |-> Undefined,
     rawResult |-> <<>>, usedModel |-> NoModel, confidence |-> 0,
     valid |-> FALSE, feedback |-> NoFeedback, startTime |-> 0,
     request |-> NoRequest]

\* imageToLatexMCP before it is called:
\*   pc           "idle", "reading" (readFileAsBase64), "awaitFirst" and
\*                "awaitRefine" (the requests of imageToLatex), "handed"
\*                (useMCP called), "failed" (imageToLatex raised)
\*   requests     requests of imageToLatex to the model
\*   validations  calls of validateLatexMCP by imageToLatex
\*   firstValid   the outcome of the first of them
\*   lastText     the content of the last reply received
\*   candidate    what imageToLatex returned
\*   completed    imageToLatex has returned
\*   handed       useMCP has been called with the candidate
NoVision ==
    [pc |-> "idle", requests |-> 0, validations |-> 0, firstValid |-> FALSE,
     thinking |-> <<>>, result |-> <<>>, feedback |-> <<>>,
     lastText |-> NoText, candidate |-> NoText, completed |-> FALSE,
     handed |-> FALSE]

IdleRace == [timer |-> "none", deadline |-> 0, outcome |-> "none", value |-> NoResult]

\* What an invocation has done so far:
\*   sawFresh          the call found a young entry of its task under its key
\*   foundAge          the age of the entry the call found under its key, -1
\*                     when it found none or did not look
\*   hit               the call returned a cached result
\*   servedTrips       on a hit, the round-trips that had produced the result
\*   servedMax         on a hit, the maxIterations of the call that stored it
\*   servedTuple       on a hit, the task, input, model and temperature of
\*                     the call that stored it
\*   requests          requests sent to the primary model
\*   fallbackRequests  requests sent to the fallback model
\*   roundTrips        replies received
\*   validations       calls of validateResult
\*   supplied          the confidences those calls have returned
\*   submitFailed      a request to the primary model was rejected
\*   frozen            requests and validations at the time of that rejection
\*   fallbackFailed    the request to the fallback model was rejected
\*   threw             processOutput or validateResult raised
\*   timedOut          the timer fired before the main procedure had ended
\*   sentAtTimeout     the requests it had sent to either model by then, -1
\*                     when the timer has not fired
\*   afterClear        the call was the first one after a clearMCPCache
\*   clearedOver       clearMCPCache was called while the main procedure ran
\*   servedOld         on a hit, the result was stored by a main procedure
\*                     that had started before a clearMCPCache and stored
\*                     after it
\*   began             the time of the call
\*   finalized         the time at which its result was built or taken from
\*                     the cache, -1 without a result
\*   stored            the main procedure wrote its result to the cache
\*   storeOrder        its rank among the invocations that have done so, 0
\*                     when it has not
\*   path              how the main procedure ended
\*   lastValid         the last validation outcome
\*   firstText, lastText  the reply to the initial request, the last reply
IdleHist ==
    [sawFresh |-> FALSE, foundAge |-> -1, afterClear |-> FALSE,
     clearedOver |-> FALSE, servedOld |-> FALSE,
     began |-> 0, finalized |-> -1, hit |-> FALSE, servedTrips |-> 0, servedMax |-> 0,
     servedTuple |-> <<>>,
     requests |-> 0, fallbackRequests |-> 0, roundTrips |-> 0,
     validations |-> 0, supplied |-> {}, submitFailed |-> FALSE, frozen |-> <<0, 0>>,
     fallbackFailed |-> FALSE, threw |-> FALSE, timedOut |-> FALSE,
     sentAtTimeout |-> -1,
     stored |-> FALSE, storeOrder |-> 0, path |-> "none", lastValid |-> FALSE,
     firstText |-> NoText, lastText |-> NoText]

Init ==
    /\ openaiClient = NULL
    /\ mcpCache = <<>>
    /\ now = 0
    /\ ticks = 0
    /\ call = [i \in Inv |-> NoArgs]
    /\ proc = [i \in Inv |-> IdleProc]
    /\ race = [i \in Inv |-> IdleRace]
    /\ hist = [i \in Inv |-> IdleHist]
    /\ cacheWriter = <<>>
    /\ parsed = NoParse
    /\ sinceClear = "none"
    /\ stats = NoStats
    /\ latexCheck = NoLatexCheck
    /\ vision = NoVision

Called(i) == race[i].outcome # "none"
InFlight(i) == proc[i].pc \in {"awaitInitial", "awaitRefine", "awaitFallback"}
Pending(i) == race[i].outcome = "pending"

\* Nothing of an earlier invocation in slot i is still running
Free(i) == ~InFlight(i) /\ ~Pending(i)

-----------------------------------------------------------------------------
(* Cache *)

CacheHas(key) == key \in DOMAIN mcpCache

\* The lookup with "<=" for "<" in the age test of line 76
CacheLookupInclusive(cache, key, task, t, useCache) ==
    IF useCache /\ key \in DOMAIN cache
    THEN IF t - cache[key].timestamp <= CACHE_TTL_MS /\ cache[key].task = task
         THEN "hit" ELSE "evict"
    ELSE "miss"

\* The lookup with the age test of line 76 reversed
CacheLookupReversedAge(cache, key, task, t, useCache) ==
    IF useCache /\ key \in DOMAIN cache
    THEN IF t - cache[key].timestamp > CACHE_TTL_MS /\ cache[key].task = task
         THEN "hit" ELSE "evict"
    ELSE "miss"

\* A lookup that evicts whatever it finds under the key
CacheLookupAlwaysEvicts(cache, key, task, t, useCache) ==
    IF useCache /\ key \in DOMAIN cache THEN "evict" ELSE "miss"

\* A lookup that does not look at useCache
CacheLookupIgnoresFlag(cache, key, task, t, useCache) ==
    IF key \in DOMAIN cache
    THEN IF t - cache[key].timestamp < CACHE_TTL_MS /\ cache[key].task = task
         THEN "hit" ELSE "evict"
    ELSE "miss"

\* lines 72-82: "hit" when the key is present with a young entry of this task,
\* "evict" when it is present otherwise, "miss" when it is absent or the cache
\* is not in use
CacheLookup(cache, key, task, t, useCache) ==
    IF useCache /\ key \in DOMAIN cache
    THEN IF t - cache[key].timestamp < CACHE_TTL_MS /\ cache[key].task = task
         THEN "hit" ELSE "evict"
    ELSE "miss"

\* A store that keeps the entry already present under the key
CacheSetKeepsFirst(cache, key, entry) ==
    IF key \in DOMAIN cache THEN cache
    ELSE [k \in (DOMAIN cache) \cup {key} |-> IF k = key THEN entry ELSE cache[k]]

\* Map.set (line 173)
CacheSet(cache, key, entry) == [k \in (DOMAIN cache) \cup {key} |->
                                  IF k = key THEN entry ELSE cache[k]]

CacheDelete(cache, key) == [k \in (DOMAIN cache) \ {key} |-> cache[k]]

-----------------------------------------------------------------------------
(* Prompts *)

constructMCPPrompt(model) ==
    [kind |-> "initial", model |-> model, previousResult |-> <<>>,
     feedback |-> <<>>, previousThinking |-> <<>>, confidence |-> NoConf]

constructRefinementPrompt(model, previousResult, feedback, previousThinking, confidence) ==
    [kind |-> "refinement", model |-> model, previousResult |-> previousResult,
     feedback |-> feedback, previousThinking |-> previousThinking,
     confidence |-> confidence]

RefinementMarker(n) == <<"\n\nRefinement Iteration ", NumStr(n), ":\n">>

-----------------------------------------------------------------------------
(* The main procedure (processingPromise), between two suspension points *)

Falsy(feedback) == feedback \in {NoFeedback, <<>>}

\* The loop of line 128 with "<=" for "<": one refinement too many
RefinementLoopOffByOne(a, p) ==
    IF (~p.valid \/ p.confidence < a.confidenceThreshold) /\ p.iterations <= a.maxIterations
    THEN [p EXCEPT !.pc = "awaitRefine",
                   !.request = constructRefinementPrompt(
                                   p.usedModel, p.rawResult,
                                   IF Falsy(p.feedback) THEN DefaultFeedback ELSE p.feedback,
                                   p.currentReasoning, p.confidence)]
    ELSE [p EXCEPT !.pc = "returned"]

\* The loop of line 128 without the test of the confidence
RefinementLoopIgnoresConfidence(a, p) ==
    IF ~p.valid /\ p.iterations < a.maxIterations
    THEN [p EXCEPT !.pc = "awaitRefine",
                   !.request = constructRefinementPrompt(
                                   p.usedModel, p.rawResult,
                                   IF Falsy(p.feedback) THEN DefaultFeedback ELSE p.feedback,
                                   p.currentReasoning, p.confidence)]
    ELSE [p EXCEPT !.pc = "returned"]

\* line 128 and what follows it: the next refinement request, or the return
RefinementLoop(a, p) ==
    IF (~p.valid \/ p.confidence < a.confidenceThreshold) /\ p.iterations < a.maxIterations
    THEN [p EXCEPT !.pc = "awaitRefine",
                   !.request = constructRefinementPrompt(
                                   p.usedModel, p.rawResult,
                                   IF Falsy(p.feedback) THEN DefaultFeedback ELSE p.feedback,
                                   p.currentReasoning, p.confidence)]
    ELSE [p EXCEPT !.pc = "returned"]

\* A catch block that swallows the error when no fallback can be tried
CatchBlockSwallows(a, p) ==
    IF p.usedModel # a.fallbackModel /\ a.fallbackModel # NoModel
    THEN [p EXCEPT !.pc = "awaitFallback",
                   !.usedModel = a.fallbackModel,
                   !.request = constructMCPPrompt(a.fallbackModel)]
    ELSE [p EXCEPT !.pc = "returned"]

\* The catch block without the test usedModel !== fallbackModel
CatchBlockRetriesSameModel(a, p) ==
    IF a.fallbackModel # NoModel
    THEN [p EXCEPT !.pc = "awaitFallback",
                   !.usedModel = a.fallbackModel,
                   !.request = constructMCPPrompt(a.fallbackModel)]
    ELSE [p EXCEPT !.pc = "threw"]

\* lines 183-204: the catch block of the main procedure
CatchBlock(a, p) ==
    IF p.usedModel # a.fallbackModel /\ a.fallbackModel # NoModel
    THEN [p EXCEPT !.pc = "awaitFallback",
                   !.usedModel = a.fallbackModel,
                   !.request = constructMCPPrompt(a.fallbackModel)]
    ELSE [p EXCEPT !.pc = "threw"]

\* sendMCPRequest's return value for a reply text (line 344)
Content(text) == Trim(text)

\* Lines 121-125 with the default stored instead of the validator's confidence
FirstValidatedDropsConfidence(a, p, v) ==
    IF v.threw THEN CatchBlock(a, p)
    ELSE RefinementLoop(a,
             [p EXCEPT !.valid = v.valid,
                       !.feedback = v.feedback,
                       !.iterations = @ + 1,
                       !.confidence = DefaultConfidence])

\* lines 121-128: the first validation outcome v
FirstValidated(a, p, v) ==
    IF v.threw THEN CatchBlock(a, p)
    ELSE RefinementLoop(a,
             [p EXCEPT !.valid = v.valid,
                       !.feedback = v.feedback,
                       !.iterations = @ + 1,
                       !.confidence = IF v.confidence \in {NoConf, 0}
                                      THEN DefaultConfidence ELSE v.confidence])

\* Lines 112-128 without the validateResult call of line 121
FirstProcessedUnvalidated(a, p, po) ==
    IF po.threw THEN CatchBlock(a, p)
    ELSE RefinementLoop(a,
             [p EXCEPT !.processedResult = po.value, !.initialResult = po.value,
                       !.iterations = @ + 1])

\* lines 112-121: the first processed output po
FirstProcessed(a, p, po) ==
    IF po.threw THEN CatchBlock(a, p)
    ELSE FirstValidated(a,
             [p EXCEPT !.processedResult = po.value, !.initialResult = po.value],
             ValidateResult(a.validateResult, po.value))

\* Lines 108-128 with the confidence of the response kept as the current one
FirstParsedKeepsReported(a, p, c) ==
    [FirstProcessed(a,
         [p EXCEPT !.currentReasoning = c.thinking, !.rawResult = c.result],
         ProcessOutput(a.processOutput, c.result))
     EXCEPT !.confidence = c.confidence]

\* lines 108-112: the components c of the first response
FirstParsed(a, p, c) ==
    FirstProcessed(a,
        [p EXCEPT !.currentReasoning = c.thinking, !.rawResult = c.result],
        ProcessOutput(a.processOutput, c.result))

\* lines 105-128: the first response
FirstPass(a, p, text) == FirstParsed(a, p, extractMCPComponents(Content(text)))

\* Lines 157-159 without the increment of line 159
RefinementValidatedNoCount(a, p, v) ==
    IF v.threw THEN CatchBlock(a, p)
    ELSE RefinementLoop(a,
             [p EXCEPT !.valid = v.valid,
                       !.feedback = v.feedback,
                       !.confidence = IF v.confidence \in {NoConf, 0}
                                      THEN @ ELSE v.confidence])

\* lines 157-160: the validation outcome v of a refinement
RefinementValidated(a, p, v) ==
    IF v.threw THEN CatchBlock(a, p)
    ELSE RefinementLoop(a,
             [p EXCEPT !.valid = v.valid,
                       !.feedback = v.feedback,
                       !.confidence = IF v.confidence \in {NoConf, 0}
                                      THEN @ ELSE v.confidence,
                       !.iterations = @ + 1])

\* lines 149-157: the processed output po of a refinement
RefinementProcessed(a, p, po) ==
    IF po.threw THEN CatchBlock(a, p)
    ELSE RefinementValidated(a, [p EXCEPT !.processedResult = po.value],
                             ValidateResult(a.validateResult, po.value))

\* lines 141-149: the components c of a refinement response
RefinementParsed(a, p, c) ==
    RefinementProcessed(a,
        [p EXCEPT !.currentReasoning =
                      IF c.thinking # <<>>
                      THEN @ \o RefinementMarker(p.iterations) \o c.thinking
                      ELSE @],
        ProcessOutput(a.processOutput, c.result))

\* lines 138-160: a refinement response
RefinementPass(a, p, text) == RefinementParsed(a, p, extractMCPComponents(Content(text)))

\* lines 193-195: the processed output po of the fallback response
FallbackProcessed(p, po) ==
    IF po.threw THEN [p EXCEPT !.pc = "threw"]
    ELSE [p EXCEPT !.processedResult = po.value, !.pc = "returnedFallback"]

\* lines 190-193: the components c of the fallback response
FallbackParsed(a, p, c) ==
    FallbackProcessed([p EXCEPT !.currentReasoning = <<FallbackMarker>> \o c.thinking],
                      ProcessOutput(a.processOutput, c.result))

\* lines 189-195: the fallback response
FallbackPass(a, p, text) == FallbackParsed(a, p, extractMCPComponents(Content(text)))

\* The result with iterations counted one too many
mcpResultOffByOne(p, t) ==
    [finalResult |-> p.processedResult, iterations |-> p.iterations + 1,
     reasoning |-> p.currentReasoning, initialResult |-> p.initialResult,
     confidence |-> p.confidence, model |-> p.usedModel,
     processingTimeMs |-> t - p.startTime]

\* Lines 162-170 with the first processed result as the final one
mcpResultKeepsInitial(p, t) ==
    [finalResult |-> p.initialResult, iterations |-> p.iterations,
     reasoning |-> p.currentReasoning, initialResult |-> p.initialResult,
     confidence |-> p.confidence, model |-> p.usedModel,
     processingTimeMs |-> t - p.startTime]

\* lines 162-170
mcpResult(p, t) ==
    [finalResult |-> p.processedResult, iterations |-> p.iterations,
     reasoning |-> p.currentReasoning, initialResult |-> p.initialResult,
     confidence |-> p.confidence, model |-> p.usedModel,
     processingTimeMs |-> t - p.startTime]

\* The fallback result built like the primary one, from the running counters
fallbackResultCounted(p, t) ==
    [finalResult |-> p.processedResult, iterations |-> p.iterations + 1,
     reasoning |-> p.currentReasoning, initialResult |-> Undefined,
     confidence |-> p.confidence, model |-> p.usedModel,
     processingTimeMs |-> t - p.startTime]

\* lines 195-202
fallbackResult(p, t) ==
    [finalResult |-> p.processedResult, iterations |-> 1,
     reasoning |-> p.currentReasoning, initialResult |-> Undefined,
     confidence |-> FallbackConfidence, model |-> p.usedModel,
     processingTimeMs |-> t - p.startTime]

\* Whether the callbacks raise on a reply, and whether validateResult runs
ProcessRaises(a, text) ==
    ProcessOutput(a.processOutput, extractMCPComponents(Content(text)).result).threw

ValidateRaises(a, text) ==
    /\ ~ProcessRaises(a, text)
    /\ ValidateResult(a.validateResult,
           ProcessOutput(a.processOutput, extractMCPComponents(Content(text)).result).value).threw

-----------------------------------------------------------------------------
(* Actions *)

TickSteps == {CACHE_TTL_MS}

\* The clock advances by d, at most max times in a behaviour
Clock(d, max) ==
    /\ ticks < max
    /\ now' = now + d
    /\ ticks' = ticks + 1
    /\ UNCHANGED <<openaiClient, mcpCache, call, proc, race, hist, cacheWriter, parsed,
                 sinceClear, stats, latexCheck, vision>>

Tick(d) == Clock(d, MaxTicks)

initializeOpenAI ==
    /\ openaiClient' = "client"
    /\ UNCHANGED <<mcpCache, now, ticks, call, proc, race, hist, cacheWriter, parsed,
                 sinceClear, stats, latexCheck, vision>>

\* A race that a rejection by the timer does not settle
SettleIgnoresTimer(r, outcome, value) ==
    IF r.outcome = "pending" /\ outcome # "timeout"
    THEN [r EXCEPT !.outcome = outcome, !.value = value, !.timer = "spent", !.deadline = 0]
    ELSE r

\* A race in which the last settlement wins
SettleLastWins(r, outcome, value) ==
    [r EXCEPT !.outcome = outcome, !.value = value, !.timer = "spent", !.deadline = 0]

\* Promise.race (line 209): the first of the two promises to settle decides
\* what the caller gets; a later settlement of the other one is not observed.
\* The timer is never cleared: once the race is settled its firing rejects a
\* promise that nobody observes, so it is no longer tracked ("spent").
Settle(r, outcome, value) ==
    IF r.outcome = "pending"
    THEN [r EXCEPT !.outcome = outcome, !.value = value, !.timer = "spent", !.deadline = 0]
    ELSE r

\* The locals of a main procedure that has ended are dead
DoneProc(pc) == [IdleProc EXCEPT !.pc = pc]

\* The main procedure of invocation i has run from one suspension point to
\* the next one or to its end, leaving its locals as p and its history as h.
Advance(i, p, h) ==
    LET a == call[i]
        key == cacheKey(a)
    IN  CASE p.pc \in {"awaitRefine", "awaitFallback"} ->
               /\ proc' = [proc EXCEPT ![i] = p]
               /\ hist' = [hist EXCEPT ![i] =
                      [h EXCEPT !.requests = IF p.pc = "awaitRefine" THEN @ + 1 ELSE @,
                                !.fallbackRequests = IF p.pc = "awaitFallback" THEN @ + 1 ELSE @]]
               /\ UNCHANGED <<mcpCache, race, cacheWriter, sinceClear>>
          [] p.pc = "returned" ->
               LET result == mcpResult(p, now)
                   entry == [result |-> result, timestamp |-> now, task |-> a.task]
               IN  /\ proc' = [proc EXCEPT ![i] = DoneProc("returned")]
                   /\ mcpCache' = IF a.useCache THEN CacheSet(mcpCache, key, entry)
                                  ELSE mcpCache
                   /\ cacheWriter' =
                          IF a.useCache
                          THEN CacheSet(cacheWriter, key,
                                   [entry |-> entry, roundTrips |-> h.roundTrips,
                                    maxIterations |-> a.maxIterations,
                                    late |-> race[i].outcome = "timeout",
                                    tuple |-> <<a.task, a.input, a.model, a.temperature>>,
                                    old |-> h.clearedOver,
                                    slot |-> i])
                          ELSE cacheWriter
                   /\ sinceClear' = IF a.useCache /\ sinceClear = "untouched"
                                    THEN "written" ELSE sinceClear
                   /\ race' = [race EXCEPT ![i] = Settle(@, "result", result)]
                   /\ hist' = [hist EXCEPT ![i] =
                          [h EXCEPT !.path = "primary", !.lastValid = p.valid,
                                    !.finalized = now,
                                    !.stored = a.useCache,
                                    !.storeOrder =
                                        IF a.useCache
                                        THEN 1 + Cardinality({j \in Inv \ {i} : hist[j].stored})
                                        ELSE 0]]
          [] p.pc = "returnedFallback" ->
               LET result == fallbackResult(p, now)
               IN  /\ proc' = [proc EXCEPT ![i] = DoneProc("returned")]
                   /\ race' = [race EXCEPT ![i] = Settle(@, "result", result)]
                   /\ hist' = [hist EXCEPT ![i] =
                          [h EXCEPT !.path = "fallback", !.finalized = now]]
                   /\ UNCHANGED <<mcpCache, cacheWriter, sinceClear>>
          [] p.pc = "threw" ->
               /\ proc' = [proc EXCEPT ![i] = DoneProc("threw")]
               /\ race' = [race EXCEPT ![i] = Settle(@, "error", NoResult)]
               /\ hist' = [hist EXCEPT ![i] = [h EXCEPT !.path = "failed"]]
               /\ UNCHANGED <<mcpCache, cacheWriter, sinceClear>>

\* A call of useMCP, up to its return or its first suspension point
\* (lines 60-105), in the lowest slot that is free
useMCPCall(i, a) ==
    /\ Free(i)
    /\ \A j \in Inv : j < i => ~Free(j)
    /\ call' = [call EXCEPT ![i] = a]
    /\ LET key == cacheKey(a)
           found == CacheLookup(mcpCache, key, a.task, now, a.useCache)
           fresh == /\ a.useCache
                    /\ key \in DOMAIN mcpCache
                    /\ now - mcpCache[key].timestamp < CACHE_TTL_MS
                    /\ mcpCache[key].task = a.task
           h == [IdleHist EXCEPT !.sawFresh = fresh,
                                 !.afterClear = sinceClear # "none",
                                 !.began = now,
                                 !.foundAge = IF a.useCache /\ key \in DOMAIN mcpCache
                                              THEN now - mcpCache[key].timestamp
                                              ELSE -1]
       IN  IF found = "hit"
           THEN /\ race' = [race EXCEPT ![i] =
                       [IdleRace EXCEPT !.outcome = "result", !.value = mcpCache[key].result]]
                /\ hist' = [hist EXCEPT ![i] =
                       [h EXCEPT !.hit = TRUE, !.path = "cache", !.finalized = now,
                                 !.servedTrips = cacheWriter[key].roundTrips,
                                 !.servedMax = cacheWriter[key].maxIterations,
                                 !.servedTuple = cacheWriter[key].tuple,
                                 !.servedOld = cacheWriter[key].old]]
                /\ proc' = [proc EXCEPT ![i] = IdleProc]
                /\ UNCHANGED <<mcpCache, cacheWriter>>
           ELSE /\ mcpCache' = IF found = "evict" THEN CacheDelete(mcpCache, key)
                               ELSE mcpCache
                /\ cacheWriter' = IF found = "evict" THEN CacheDelete(cacheWriter, key)
                                  ELSE cacheWriter
                /\ IF openaiClient = NULL
                   THEN /\ race' = [race EXCEPT ![i] = [IdleRace EXCEPT !.outcome = "error"]]
                        /\ hist' = [hist EXCEPT ![i] = [h EXCEPT !.path = "failed"]]
                        /\ proc' = [proc EXCEPT ![i] = DoneProc("threw")]
                   ELSE /\ race' = [race EXCEPT ![i] =
                               [IdleRace EXCEPT !.outcome = "pending", !.timer = "armed",
                                                !.deadline = now + a.timeout]]
                        /\ proc' = [proc EXCEPT ![i] =
                               [IdleProc EXCEPT !.pc = "awaitInitial",
                                                !.usedModel = a.model,
                                                !.startTime = now,
                                                !.request = constructMCPPrompt(a.model)]]
                        /\ hist' = [hist EXCEPT ![i] = [h EXCEPT !.requests = 1]]
    /\ sinceClear' = "none"
    /\ UNCHANGED <<openaiClient, now, ticks, parsed, stats, latexCheck>>

\* useMCP called by another caller than imageToLatexMCP
useMCP(i, a) == useMCPCall(i, a) /\ UNCHANGED vision

\* The timer of line 95 fires, no earlier than timeout ms after it was set
TimerFires(i) ==
    /\ race[i].timer = "armed"
    /\ now >= race[i].deadline
    /\ race' = [race EXCEPT ![i] = Settle(@, "timeout", NoResult)]
    /\ hist' = [hist EXCEPT ![i] =
           [@ EXCEPT !.timedOut = TRUE,
                     !.sentAtTimeout = hist[i].requests + hist[i].fallbackRequests]]
    /\ UNCHANGED <<openaiClient, mcpCache, now, ticks, call, proc, cacheWriter, parsed,
                 sinceClear, stats, latexCheck, vision>>

\* The confidences validateResult returns for the reply text, none when it
\* is not called, raises or returns no confidence
SuppliedFor(a, text) ==
    IF ProcessRaises(a, text) \/ ValidateRaises(a, text) THEN {}
    ELSE {ValidateResult(a.validateResult,
              ProcessOutput(a.processOutput,
                  extractMCPComponents(Content(text)).result).value).confidence} \ {NoConf}

Received(i, text) ==
    [hist[i] EXCEPT !.roundTrips = @ + 1,
                    !.firstText = IF proc[i].pc = "awaitInitial" THEN text ELSE @,
                    !.lastText = text,
                    !.threw = @ \/ ProcessRaises(call[i], text) \/ ValidateRaises(call[i], text),
                    !.validations = IF proc[i].pc # "awaitFallback"
                                       /\ ~ProcessRaises(call[i], text)
                                    THEN @ + 1 ELSE @,
                    !.supplied = IF proc[i].pc # "awaitFallback"
                                 THEN @ \cup SuppliedFor(call[i], text) ELSE @]

\* The reply to the initial request arrives
InitialResponse(i, text) ==
    /\ proc[i].pc = "awaitInitial"
    /\ Advance(i, FirstPass(call[i], proc[i], text), Received(i, text))
    /\ UNCHANGED <<openaiClient, now, ticks, call, parsed, stats, latexCheck, vision>>

\* The reply to a refinement request arrives
RefinementResponse(i, text) ==
    /\ proc[i].pc = "awaitRefine"
    /\ Advance(i, RefinementPass(call[i], proc[i], text), Received(i, text))
    /\ UNCHANGED <<openaiClient, now, ticks, call, parsed, stats, latexCheck, vision>>

\* The reply to the fallback request arrives
FallbackResponse(i, text) ==
    /\ proc[i].pc = "awaitFallback"
    /\ Advance(i, FallbackPass(call[i], proc[i], text), Received(i, text))
    /\ UNCHANGED <<openaiClient, now, ticks, call, parsed, stats, latexCheck, vision>>

\* A request to the primary model is rejected
SubmitFails(i) ==
    /\ proc[i].pc \in {"awaitInitial", "awaitRefine"}
    /\ Advance(i, CatchBlock(call[i], proc[i]),
               [hist[i] EXCEPT !.submitFailed = TRUE,
                               !.frozen = <<hist[i].requests, hist[i].validations>>])
    /\ UNCHANGED <<openaiClient, now, ticks, call, parsed, stats, latexCheck, vision>>

\* The request to the fallback model is rejected
FallbackFails(i) ==
    /\ proc[i].pc = "awaitFallback"
    /\ Advance(i, [proc[i] EXCEPT !.pc = "threw"], [hist[i] EXCEPT !.fallbackFailed = TRUE])
    /\ UNCHANGED <<openaiClient, now, ticks, call, parsed, stats, latexCheck, vision>>

\* clearMCPCache (lines 350-352)
clearMCPCache ==
    /\ mcpCache' = <<>>
    /\ cacheWriter' = <<>>
    /\ sinceClear' = "untouched"
    /\ hist' = [i \in Inv |->
           IF InFlight(i) THEN [hist[i] EXCEPT !.clearedOver = TRUE] ELSE hist[i]]
    /\ UNCHANGED <<openaiClient, now, ticks, call, proc, race, parsed, stats, latexCheck, vision>>

\* resetMathMCPSystem (math-mcp.ts, lines 397-399)
resetMathMCPSystem == clearMCPCache

\* getMCPCacheStats (lines 357-362)
getMCPCacheStats ==
    /\ stats' = [size |-> Cardinality(DOMAIN mcpCache), entries |-> DOMAIN mcpCache,
                 rightAfterClear |-> sinceClear = "untouched",
                 expired |-> {k \in DOMAIN mcpCache :
                                 now - mcpCache[k].timestamp >= CACHE_TTL_MS}]
    /\ UNCHANGED <<openaiClient, mcpCache, now, ticks, call, proc, race, hist, cacheWriter,
                   parsed, sinceClear, latexCheck, vision>>

-----------------------------------------------------------------------------
(* Specification: one caller, which awaits each call before the next one *)

Models == {Gpt4o}
Fallbacks == {Gpt35, Gpt4o, NoModel}
Thresholds == {DefaultThreshold}
Validators == {"reject", "accept", "exact"}
Processors == {"trim"}

CallArgs == Args(Tasks, Inputs, Models, Fallbacks, BOOLEAN, Thresholds, Processors, Validators)

\* The caller of Spec starts a call when nothing of an earlier one is still
\* running, the main procedure of a timed-out call included; its calls
\* therefore all run in the first slot.
Sequential == \A j \in Inv : Free(j)

Next ==
    \/ \E d \in TickSteps : Tick(d)
    \/ initializeOpenAI
    \/ \E i \in Inv, a \in CallArgs : Sequential /\ useMCP(i, a)
    \/ \E i \in Inv : TimerFires(i)
    \/ \E i \in Inv, text \in Responses : InitialResponse(i, text)
    \/ \E i \in Inv, text \in Responses : RefinementResponse(i, text)
    \/ \E i \in Inv, text \in Responses : FallbackResponse(i, text)
    \/ \E i \in Inv : SubmitFails(i)
    \/ \E i \in Inv : FallbackFails(i)

Spec == Init /\ [][Next]_vars

-----------------------------------------------------------------------------
(* Claims C1-C10 *)

Key(i) == cacheKey(call[i])
Started(i) == hist[i].requests >= 1

Processed(i, text) ==
    ProcessOutput(call[i].processOutput, extractMCPComponents(Content(text)).result)

FirstOutcome(i) == ValidateResult(call[i].validateResult, Processed(i, hist[i].firstText).value)

FallbackAvailable(i) ==
    call[i].fallbackModel # call[i].model /\ call[i].fallbackModel # NoModel

\* The case of C1: the initial request was sent, the validator rejects every
\* result, no request was rejected and the timer has not fired
C1_Case(i) ==
    /\ Started(i)
    /\ AlwaysInvalid(call[i].validateResult)
    /\ ~hist[i].submitFailed
    /\ ~hist[i].threw
    /\ ~hist[i].timedOut

\* C1: with a validator that always rejects, no rejected request and no
\* timeout, an invocation that missed the cache never sends more than
\* maxIterations requests, is still waiting as long as it has received fewer
\* than maxIterations replies, and ends by returning a result whose iterations
\* is maxIterations and whose finalResult is the processed last reply.
C1_IterationBound ==
    \A i \in Inv :
        C1_Case(i) =>
            /\ hist[i].requests <= call[i].maxIterations
            /\ InFlight(i) =>
                   /\ hist[i].roundTrips < call[i].maxIterations
                   /\ hist[i].requests = hist[i].roundTrips + 1
            /\ ~InFlight(i) =>
                   /\ race[i].outcome = "result"
                   /\ hist[i].roundTrips = call[i].maxIterations
                   /\ hist[i].requests = call[i].maxIterations
                   /\ hist[i].fallbackRequests = 0
                   /\ race[i].value.iterations = call[i].maxIterations
                   /\ race[i].value.finalResult = Processed(i, hist[i].lastText).value

C1_Witness ==
    \E i \in Inv :
        /\ C1_Case(i)
        /\ ~InFlight(i)
        /\ call[i].maxIterations >= 2
        /\ race[i].value.iterations = call[i].maxIterations

\* The case of C2: the first reply was validated as valid with a confidence
\* of at least the threshold
C2_Case(i) ==
    /\ hist[i].firstText # NoText
    /\ ~Processed(i, hist[i].firstText).threw
    /\ ~FirstOutcome(i).threw
    /\ FirstOutcome(i).valid
    /\ FirstOutcome(i).confidence >= call[i].confidenceThreshold

\* C2: when the first result is validated as valid with a confidence of at
\* least the threshold, the invocation has sent one request and received one
\* reply, sends no refinement or fallback request, and what it returns has
\* iterations 1 and finalResult equal to initialResult.
C2_EarlyExit ==
    \A i \in Inv :
        C2_Case(i) =>
            /\ hist[i].requests = 1
            /\ hist[i].roundTrips = 1
            /\ hist[i].fallbackRequests = 0
            /\ ~InFlight(i)
            /\ race[i].outcome \in {"result", "timeout"}
            /\ race[i].outcome = "result" =>
                   /\ race[i].value.iterations = 1
                   /\ race[i].value.finalResult = race[i].value.initialResult
                   /\ race[i].value.initialResult = Processed(i, hist[i].firstText).value

C2_Witness ==
    \E i \in Inv :
        /\ C2_Case(i)
        /\ call[i].maxIterations >= 2
        /\ race[i].outcome = "result"
        /\ race[i].value.iterations = 1

\* C3: the iterations of every returned result is the number of round-trips
\* performed to produce it (for a cached result, by the invocation that
\* stored it).
C3_IterationsAreRoundTrips ==
    \A i \in Inv :
        race[i].outcome = "result" =>
            race[i].value.iterations =
                IF hist[i].hit THEN hist[i].servedTrips ELSE hist[i].roundTrips

\* C3 as amended: a result of the primary path has as iterations the number
\* of replies its invocation received, a cached result the number received
\* by the invocation that stored it, and a result of the fallback path has
\* iterations 1 however many replies its invocation received.
C3_IterationsByPath ==
    \A i \in Inv :
        race[i].outcome = "result" =>
            /\ hist[i].path \in {"primary", "cache", "fallback"}
            /\ hist[i].path = "primary" =>
                   /\ race[i].value.iterations = hist[i].roundTrips
                   /\ hist[i].roundTrips = hist[i].requests
            /\ hist[i].path = "cache" =>
                   /\ race[i].value.iterations = hist[i].servedTrips
                   /\ hist[i].roundTrips = 0
            /\ hist[i].path = "fallback" =>
                   /\ race[i].value.iterations = 1
                   /\ hist[i].fallbackRequests = 1
                   /\ hist[i].roundTrips = hist[i].requests

C3_Witness ==
    \E i \in Inv :
        /\ race[i].outcome = "result"
        /\ hist[i].path = "fallback"
        /\ race[i].value.iterations = 1
        /\ hist[i].roundTrips = 2

\* C4: the iterations of every returned result is at most the maxIterations
\* of the call that returns it.
C4_IterationsWithinMax ==
    \A i \in Inv :
        race[i].outcome = "result" => race[i].value.iterations <= call[i].maxIterations

\* C4 as amended: the iterations of a result that a call produced itself, on
\* the primary or the fallback path, is between 1 and the call's
\* maxIterations; the iterations of a cached result is between 1 and the
\* maxIterations of the call that stored it.
C4_IterationsWithinStoredMax ==
    \A i \in Inv :
        race[i].outcome = "result" =>
            /\ race[i].value.iterations >= 1
            /\ race[i].value.iterations <=
                   IF hist[i].hit THEN hist[i].servedMax ELSE call[i].maxIterations

C4_Witness ==
    \E i \in Inv :
        /\ race[i].outcome = "result"
        /\ hist[i].hit
        /\ race[i].value.iterations > call[i].maxIterations
        /\ race[i].value.iterations <= hist[i].servedMax

\* C5: a call with useCache that finds under its key an entry younger than
\* the TTL and of its task returns that entry's result at once: it sends no
\* request, sets no timer, starts no main procedure and leaves the entry as
\* it was stored.
C5_CacheHit ==
    \A i \in Inv :
        hist[i].sawFresh =>
            /\ hist[i].hit
            /\ race[i].outcome = "result"
            /\ race[i].timer = "none"
            /\ proc[i].pc = "idle"
            /\ hist[i].requests = 0
            /\ hist[i].fallbackRequests = 0
            /\ hist[i].roundTrips = 0
            /\ Key(i) \in DOMAIN mcpCache
            /\ mcpCache[Key(i)].result = race[i].value
            /\ mcpCache[Key(i)] = cacheWriter[Key(i)].entry

C5_Witness ==
    \E i \in Inv :
        /\ hist[i].sawFresh
        /\ hist[i].hit
        /\ race[i].value.iterations >= 2

\* C6: once the timer has fired before the main procedure ended, the caller
\* has the timeout error and no result, whatever the main procedure does
\* afterwards.
C6_TimeoutPrecedence ==
    \A i \in Inv :
        hist[i].timedOut => race[i].outcome = "timeout" /\ race[i].value = NoResult

C6_Witness ==
    \E i \in Inv :
        /\ hist[i].timedOut
        /\ hist[i].roundTrips >= 2
        /\ hist[i].path = "primary"
        /\ race[i].outcome = "timeout"

\* C7: an invocation whose timer has fired stores nothing in the cache, and
\* no entry of the cache was stored by a main procedure after its timeout.
C7_NoLateCacheWrite ==
    /\ \A i \in Inv : hist[i].timedOut => ~hist[i].stored
    /\ \A k \in DOMAIN cacheWriter : ~cacheWriter[k].late

\* C8: after a rejected request to the primary model, with a fallback model
\* that is set and differs from the model, the invocation has sent exactly
\* one request to the fallback model, with the initial prompt, validates
\* nothing more and sends nothing more to the primary model; when the
\* fallback reply is processed it returns iterations 1, confidence 0.5, the
\* fallback model and a reasoning that starts with the fallback marker.
C8_Fallback ==
    \A i \in Inv :
        (hist[i].submitFailed /\ FallbackAvailable(i)) =>
            /\ hist[i].fallbackRequests = 1
            /\ hist[i].requests = hist[i].frozen[1]
            /\ hist[i].validations = hist[i].frozen[2]
            /\ proc[i].pc = "awaitFallback" =>
                   /\ proc[i].request.kind = "initial"
                   /\ proc[i].request.model = call[i].fallbackModel
            /\ (proc[i].pc # "awaitFallback" /\ ~hist[i].fallbackFailed /\ ~hist[i].threw) =>
                   /\ hist[i].path = "fallback"
                   /\ race[i].outcome \in {"result", "timeout"}
                   /\ race[i].outcome = "result" =>
                          /\ race[i].value.iterations = 1
                          /\ race[i].value.confidence = FallbackConfidence
                          /\ race[i].value.model = call[i].fallbackModel
                          /\ Len(race[i].value.reasoning) >= 1
                          /\ race[i].value.reasoning[1] = FallbackMarker
                          /\ race[i].value.finalResult = Processed(i, hist[i].lastText).value

C8_Witness ==
    \E i \in Inv :
        /\ hist[i].submitFailed
        /\ FallbackAvailable(i)
        /\ hist[i].roundTrips >= 2
        /\ hist[i].path = "fallback"
        /\ race[i].outcome = "result"

\* C9: after a rejected request to the primary model with no usable fallback
\* (none set, or the same as the model), and after a rejected fallback
\* request, the main procedure has ended with the error, the caller has it
\* (or the earlier timeout error), and no fallback request beyond the single
\* one was sent.
C9_ErrorPropagation ==
    \A i \in Inv :
        ((hist[i].submitFailed /\ ~FallbackAvailable(i)) \/ hist[i].fallbackFailed) =>
            /\ proc[i].pc = "threw"
            /\ hist[i].path = "failed"
            /\ race[i].outcome = IF hist[i].timedOut THEN "timeout" ELSE "error"
            /\ race[i].value = NoResult
            /\ hist[i].fallbackRequests = IF hist[i].fallbackFailed THEN 1 ELSE 0
            /\ hist[i].requests = hist[i].frozen[1]

C9_Witness ==
    \E i \in Inv :
        /\ hist[i].fallbackFailed
        /\ hist[i].roundTrips >= 1
        /\ race[i].outcome = "error"

\* C10: whenever a call with useCache has returned a result, that result is
\* in the cache under the call's key.
C10_SuccessIsCached ==
    \A i \in Inv :
        (race[i].outcome = "result" /\ call[i].useCache) =>
            /\ Key(i) \in DOMAIN mcpCache
            /\ mcpCache[Key(i)].result = race[i].value

-----------------------------------------------------------------------------
(* Claims C11-C20 *)

\* The invocation in slot i propagates a failure: a request to the primary
\* model was rejected with no fallback to try, or the fallback request was
\* rejected, or the client was missing
UpstreamFailed(i) ==
    \/ hist[i].submitFailed /\ ~FallbackAvailable(i)
    \/ hist[i].fallbackFailed
    \/ race[i].outcome = "error"

\* C11: an invocation that propagates an upstream failure has written nothing
\* to the cache; when it looked the cache up (useCache), the cache holds no
\* entry under its key (it missed the cache, and nothing else ran since).
C11_FailureNotCached ==
    \A i \in Inv :
        UpstreamFailed(i) =>
            /\ ~hist[i].stored
            /\ call[i].useCache => Key(i) \notin DOMAIN mcpCache

C11_Witness ==
    \E i \in Inv :
        /\ UpstreamFailed(i)
        /\ call[i].useCache
        /\ hist[i].roundTrips >= 1
        /\ race[i].outcome = "error"

\* SpecTTL: the engine with a clock that advances by 1 ms and by TTL - 1 ms,
\* so that an entry is looked up just before, at and just after its expiry.
AgeSteps == {1, CACHE_TTL_MS - 1}

AgeTick(d) == Clock(d, MaxAgeTicks)

AgeArgs == Args(Tasks, Inputs, Models, {Gpt35}, {TRUE}, Thresholds, Processors, {"exact"})

NextTTL ==
    \/ \E d \in AgeSteps : AgeTick(d)
    \/ initializeOpenAI
    \/ \E i \in Inv, a \in AgeArgs : Sequential /\ useMCP(i, a)
    \/ \E i \in Inv : TimerFires(i)
    \/ \E i \in Inv, text \in Responses : InitialResponse(i, text)
    \/ \E i \in Inv, text \in Responses : RefinementResponse(i, text)
    \/ \E i \in Inv, text \in Responses : FallbackResponse(i, text)
    \/ \E i \in Inv : SubmitFails(i)
    \/ \E i \in Inv : FallbackFails(i)

SpecTTL == Init /\ [][NextTTL]_vars

\* C12: a call that finds under its key an entry younger than the TTL is
\* served that entry; a call that finds one of age TTL or more is not served
\* it, has deleted it (any entry under the key afterwards is the one the call
\* itself stored) and has sent a request for a fresh computation.
C12_CacheTTL ==
    \A i \in Inv :
        /\ (hist[i].foundAge >= 0 /\ hist[i].foundAge < CACHE_TTL_MS) =>
               /\ hist[i].hit
               /\ race[i].outcome = "result"
               /\ Key(i) \in DOMAIN mcpCache
               /\ mcpCache[Key(i)].result = race[i].value
               /\ hist[i].requests = 0
        /\ hist[i].foundAge >= CACHE_TTL_MS =>
               /\ ~hist[i].hit
               /\ hist[i].requests >= 1
               /\ Key(i) \in DOMAIN mcpCache => hist[i].stored

C12_Witness ==
    \E i \in Inv :
        /\ hist[i].foundAge = CACHE_TTL_MS
        /\ ~hist[i].hit
        /\ Key(i) \notin DOMAIN mcpCache

C12_WitnessYoung ==
    \E i \in Inv : hist[i].foundAge = CACHE_TTL_MS - 1 /\ hist[i].hit

\* SpecKeys: two calls that overlap, with arguments that differ in the
\* components of the cache key; the model answers every request.
Pair == {1, 2}

KeyTasks == {<<"a">>, <<"a", "_", "b">>}
KeyInputs == {<<"c">>, <<"b", "_", "c">>}
KeyModels == {Gpt4o, Gpt35}
KeyTemperatures == {2, 3}

KeyArgs ==
    [task : KeyTasks, input : KeyInputs, model : KeyModels,
     temperature : KeyTemperatures, maxIterations : {1}, fallbackModel : {NoModel},
     timeout : {DefaultTimeout}, useCache : {TRUE},
     confidenceThreshold : Thresholds, processOutput : Processors,
     validateResult : {"accept"}]

NextKeys ==
    \/ initializeOpenAI
    \/ \E i \in Pair, a \in KeyArgs : ~Called(i) /\ useMCP(i, a)
    \/ \E i \in Pair : InitialResponse(i, RespFull)

SpecKeys == Init /\ [][NextKeys]_vars

KeyComponents == {"task", "input", "model", "temperature"}

DifferInOne(a, b) == Cardinality({f \in KeyComponents : a[f] # b[f]}) = 1

\* C13: two calls whose arguments differ in exactly one of task, input, model
\* and temperature have different cache keys, and when both have stored
\* their results the cache holds two entries, one under each key.
C13_KeyDeterminism ==
    \A i, j \in Pair :
        (Called(i) /\ Called(j) /\ DifferInOne(call[i], call[j])) =>
            /\ Key(i) # Key(j)
            /\ (hist[i].stored /\ hist[j].stored) =>
                   /\ Key(i) \in DOMAIN mcpCache
                   /\ Key(j) \in DOMAIN mcpCache
                   /\ Cardinality(DOMAIN mcpCache) = 2

C13_Witness ==
    \E i, j \in Pair :
        /\ DifferInOne(call[i], call[j])
        /\ call[i].input # call[j].input
        /\ Len(call[i].task) = 3
        /\ hist[i].stored
        /\ hist[j].stored

\* The requests of invocation i that have neither been answered nor rejected
Outstanding(i) ==
    hist[i].requests + hist[i].fallbackRequests - hist[i].roundTrips
        - (IF hist[i].submitFailed THEN 1 ELSE 0)
        - (IF hist[i].fallbackFailed THEN 1 ELSE 0)

LastOutcome(i) == ValidateResult(call[i].validateResult, Processed(i, hist[i].lastText).value)

\* C14: an invocation has at most one request outstanding, and one exactly
\* while its main procedure waits; a refinement request is outstanding only
\* when every earlier request has been answered, and it carries what parsing,
\* processing and validating the last reply gave: the confidence and the
\* feedback of a validation that did not satisfy the loop.
C14_SequentialIterations ==
    \A i \in Inv :
        /\ Outstanding(i) \in {0, 1}
        /\ Outstanding(i) = 1 <=> InFlight(i)
        /\ proc[i].pc = "awaitRefine" =>
               /\ hist[i].roundTrips = hist[i].requests - 1
               /\ proc[i].request.kind = "refinement"
               /\ proc[i].processedResult = Processed(i, hist[i].lastText).value
               /\ proc[i].valid = LastOutcome(i).valid
               /\ ~LastOutcome(i).valid \/ LastOutcome(i).confidence < call[i].confidenceThreshold
               /\ LastOutcome(i).confidence \notin {NoConf, 0} =>
                      proc[i].request.confidence = LastOutcome(i).confidence
               /\ proc[i].request.feedback =
                      IF Falsy(LastOutcome(i).feedback) THEN DefaultFeedback
                      ELSE LastOutcome(i).feedback

C14_Witness ==
    \E i \in Inv :
        /\ proc[i].pc = "awaitRefine"
        /\ hist[i].roundTrips >= 1
        /\ Outstanding(i) = 1
        /\ proc[i].request.feedback # DefaultFeedback

\* SpecLive: the engine with a model that may never answer.  The clock
\* keeps advancing and a timer whose delay has elapsed fires (the event loop);
\* a call starts only while the bounded clock can still advance.
LiveArgs == Args(Tasks, Inputs, Models, {Gpt35, NoModel}, BOOLEAN, Thresholds, Processors, {"exact"})

NextLive ==
    \/ \E d \in TickSteps : Tick(d)
    \/ initializeOpenAI
    \/ \E i \in Inv, a \in LiveArgs : Sequential /\ ticks < MaxTicks /\ useMCP(i, a)
    \/ \E i \in Inv : TimerFires(i)
    \/ \E i \in Inv, text \in Responses : InitialResponse(i, text)
    \/ \E i \in Inv, text \in Responses : RefinementResponse(i, text)
    \/ \E i \in Inv, text \in Responses : FallbackResponse(i, text)
    \/ \E i \in Inv : SubmitFails(i)
    \/ \E i \in Inv : FallbackFails(i)

EventLoop ==
    /\ WF_vars(\E d \in TickSteps : Tick(d))
    /\ \A i \in Inv : WF_vars(TimerFires(i))

SpecLive == Init /\ [][NextLive]_vars /\ EventLoop

\* C15: every call that has missed the cache and waits for the race is
\* eventually settled, with a result or an error, whether or not the model
\* answers.
C15_BoundedCompletion ==
    \A i \in Inv : Pending(i) ~> (race[i].outcome \in {"result", "error", "timeout"})

C15_Witness ==
    \E i \in Inv :
        /\ hist[i].timedOut
        /\ hist[i].roundTrips = 0
        /\ InFlight(i)
        /\ race[i].outcome = "timeout"

-----------------------------------------------------------------------------
(* The response parser on its own *)

\* extractMCPComponents applied to the response text at hand
Extract ==
    /\ parsed.text # NoText
    /\ parsed.out = NoOut
    /\ parsed' = [parsed EXCEPT !.out = extractMCPComponents(parsed.text)]
    /\ UNCHANGED <<openaiClient, mcpCache, now, ticks, call, proc, race, hist, cacheWriter,
                 sinceClear, stats, latexCheck, vision>>

MaxLen == 3

ParseTokens ==
    {"<thinking>", "</thinking>", "<result>", "</result>", "<RESULT>",
     "<confidence>", "</confidence>", "0.9", "x", " "}

SeqsUpTo(A, n) == UNION {[1..k -> A] : k \in 0..n}

ConfidenceTokens ==
    {"0", "0.0", "0.1", "0.5", "0.5abc", "0.9", "1", "1.0", "1.1", "1.5", "2",
     "-0.1", "-1", "abc", "NaN"}

Padding == {<<>>, <<" ">>}

\* A response whose confidence tag pair holds one value
ConfidenceText(pre, v, post, rest) ==
    <<"<confidence>">> \o pre \o <<v>> \o post \o <<"</confidence>">> \o rest

ConfidenceTexts ==
    {ConfidenceText(pre, v, post, rest) :
        pre \in Padding, v \in ConfidenceTokens, post \in Padding,
        rest \in {<<>>, <<"<result>", "x", "</result>">>}}

ParseTexts == SeqsUpTo(ParseTokens, MaxLen) \cup ConfidenceTexts

\* The program before any call, with a response text to parse
InitParse ==
    /\ openaiClient = NULL
    /\ mcpCache = <<>>
    /\ now = 0
    /\ ticks = 0
    /\ call = [i \in Inv |-> NoArgs]
    /\ proc = [i \in Inv |-> IdleProc]
    /\ race = [i \in Inv |-> IdleRace]
    /\ hist = [i \in Inv |-> IdleHist]
    /\ cacheWriter = <<>>
    /\ parsed \in {[text |-> text, out |-> NoOut] : text \in ParseTexts}
    /\ sinceClear = "none"
    /\ stats = NoStats
    /\ latexCheck = NoLatexCheck
    /\ vision = NoVision

NextParse == Extract

SpecParse == InitParse /\ [][NextParse]_vars

\* Some open tag of the kind stands before some close tag of the kind
HasPair(kind, s) ==
    \E i, j \in 1..Len(s) : i < j /\ s[i] \in OpenTag(kind) /\ s[j] \in CloseTag(kind)

\* C16: for every response text the parser returns a record of reasoning,
\* result and confidence, and when the text has neither a thinking tag pair
\* nor a result tag pair the result is the whole text trimmed and the
\* reasoning is empty.
C16_ParserTotality ==
    parsed.out # NoOut =>
        /\ DOMAIN parsed.out = {"thinking", "result", "confidence"}
        /\ parsed.out.thinking \in Seq(STRING)
        /\ parsed.out.result \in Seq(STRING)
        /\ parsed.out.confidence \in 0..10
        /\ (~HasPair("thinking", parsed.text) /\ ~HasPair("result", parsed.text)) =>
              /\ parsed.out.result = Trim(parsed.text)
              /\ parsed.out.thinking = <<>>

\* a partially tagged text with surrounding white space
C16_Witness ==
    /\ parsed.text = <<" ", "<result>", " ">>
    /\ parsed.out.result = <<"<result>">>
    /\ parsed.out.thinking = <<>>

\* The number parseFloat reads in the text between the confidence tags
CapturedNumber == ParseFloat(Captured("confidence", parsed.text))

InUnitRange(n) == n # NoConf /\ n >= 0 /\ n <= 10

C17_WitnessOutside ==
    /\ parsed.text \in {ConfidenceText(<<>>, "1.1", <<>>, <<>>),
                        ConfidenceText(<<>>, "abc", <<>>, <<>>)}
    /\ parsed.out.confidence = DefaultConfidence

-----------------------------------------------------------------------------
\* SpecTrace: the engine with replies that carry reasoning and replies that
\* carry none (no thinking tag pair).
TraceResponses == {RespFull, RespBare}

TraceArgs ==
    Args(Tasks, Inputs, Models, {Gpt35}, {FALSE}, Thresholds, Processors, {"reject", "accept"})

NextTrace ==
    \/ \E d \in TickSteps : Tick(d)
    \/ initializeOpenAI
    \/ \E i \in Inv, a \in TraceArgs : Sequential /\ useMCP(i, a)
    \/ \E i \in Inv : TimerFires(i)
    \/ \E i \in Inv, text \in TraceResponses : InitialResponse(i, text)
    \/ \E i \in Inv, text \in TraceResponses : RefinementResponse(i, text)
    \/ \E i \in Inv, text \in TraceResponses : FallbackResponse(i, text)
    \/ \E i \in Inv : SubmitFails(i)
    \/ \E i \in Inv : FallbackFails(i)

SpecTrace == Init /\ [][NextTrace]_vars

\* The positions of the "Refinement Iteration" headings in a reasoning
MarkerPositions(r) == {j \in 1..Len(r) : r[j] = RefinementMarker(0)[1]}

\* The refinement round-trips of an invocation
Refinements(i) == hist[i].roundTrips - 1

\* The headings of r are numbered 1, 2, ... from left to right
MarkersInOrder(r) ==
    \A j \in MarkerPositions(r) :
        /\ j + 2 <= Len(r)
        /\ SubSeq(r, j, j + 2) =
               RefinementMarker(Cardinality({m \in MarkerPositions(r) : m <= j}))

\* C18: the reasoning of a result computed on the primary path by an
\* invocation with k refinement round-trips starts with the reasoning of the
\* initial reply and contains exactly k "Refinement Iteration N" headings,
\* numbered 1 to k in this order, whatever the replies contain.
C18_ReasoningTrace ==
    \A i \in Inv :
        (race[i].outcome = "result" /\ hist[i].path = "primary") =>
            /\ Cardinality(MarkerPositions(race[i].value.reasoning)) = Refinements(i)
            /\ MarkersInOrder(race[i].value.reasoning)
            /\ \E rest \in {<<>>} \cup {SubSeq(race[i].value.reasoning, n,
                                                Len(race[i].value.reasoning)) :
                                           n \in 1..Len(race[i].value.reasoning)} :
                   race[i].value.reasoning =
                       extractMCPComponents(Content(hist[i].firstText)).thinking \o rest

\* a refinement whose reply carries no reasoning leaves no heading
C18_MissingMarker ==
    \E i \in Inv :
        /\ race[i].outcome = "result"
        /\ hist[i].path = "primary"
        /\ Refinements(i) = 1
        /\ hist[i].lastText = RespBare
        /\ MarkerPositions(race[i].value.reasoning) = {}

-----------------------------------------------------------------------------
\* SpecRace: two calls of useMCP, the second of which may start while the
\* first is still running.
RaceArgs ==
    Args(Tasks, Inputs, Models, {Gpt35}, {TRUE}, Thresholds, Processors, {"reject", "accept"})

NextRace ==
    \/ \E d \in TickSteps : Tick(d)
    \/ initializeOpenAI
    \/ \E i \in Pair, a \in RaceArgs : ~Called(i) /\ useMCP(i, a)
    \/ \E i \in Pair : TimerFires(i)
    \/ \E i \in Pair, text \in Responses : InitialResponse(i, text)
    \/ \E i \in Pair, text \in Responses : RefinementResponse(i, text)
    \/ \E i \in Pair, text \in Responses : FallbackResponse(i, text)
    \/ \E i \in Pair : SubmitFails(i)
    \/ \E i \in Pair : FallbackFails(i)

SpecRace == Init /\ [][NextRace]_vars

\* Invocations i and j have the same key, neither found an entry under it,
\* and both have completed the refinement procedure, j after i
RacedPast(i, j) ==
    /\ i # j
    /\ Called(i) /\ Called(j)
    /\ Key(i) = Key(j)
    /\ call[i].useCache /\ call[j].useCache
    /\ hist[i].foundAge = -1 /\ hist[j].foundAge = -1
    /\ hist[i].path = "primary" /\ hist[j].path = "primary"
    /\ hist[i].storeOrder < hist[j].storeOrder

\* C19: of two invocations with the same key that both started before either
\* had finished, neither was served from the cache, each sent its own
\* requests and received its own replies up to the end of the refinement
\* loop, each wrote the cache, and the cache then holds under the key one
\* entry, that of the invocation that completed last.
C19_LastWriteWins ==
    \A i \in Pair, j \in Pair :
        RacedPast(i, j) =>
            /\ ~hist[i].hit /\ ~hist[j].hit
            /\ hist[i].requests >= 1 /\ hist[j].requests >= 1
            /\ hist[i].roundTrips = hist[i].requests
            /\ hist[j].roundTrips = hist[j].requests
            /\ hist[i].validations = hist[i].roundTrips
            /\ hist[j].validations = hist[j].roundTrips
            /\ hist[i].stored /\ hist[j].stored
            /\ hist[i].storeOrder = 1 /\ hist[j].storeOrder = 2
            /\ DOMAIN mcpCache = {Key(j)}
            /\ cacheWriter[Key(j)].slot = j
            /\ mcpCache[Key(j)] = cacheWriter[Key(j)].entry
            /\ race[j].outcome = "result" => mcpCache[Key(j)].result = race[j].value

\* the two invocations return different results and the later one is cached
C19_Witness ==
    \E i \in Pair, j \in Pair :
        /\ RacedPast(i, j)
        /\ race[i].outcome = "result"
        /\ race[j].outcome = "result"
        /\ race[i].value.finalResult # race[j].value.finalResult
        /\ mcpCache[Key(j)].result = race[j].value

-----------------------------------------------------------------------------
\* SpecClear: calls of useMCP that may overlap, with the cache cleared and
\* inspected at any moment.
ClearArgs ==
    Args(Tasks, Inputs, Models, {NoModel}, {TRUE}, Thresholds, Processors, {"reject"})

NextClear ==
    \/ initializeOpenAI
    \/ \E i \in Pair, a \in ClearArgs : useMCP(i, a)
    \/ \E i \in Pair, text \in Responses : InitialResponse(i, text)
    \/ \E i \in Pair, text \in Responses : RefinementResponse(i, text)
    \/ clearMCPCache
    \/ resetMathMCPSystem
    \/ getMCPCacheStats

SpecClear == Init /\ [][NextClear]_vars

\* The call of invocation i found no client (line 86) and sent nothing
NoClientAtCall(i) == hist[i].path = "failed" /\ hist[i].requests = 0

\* C20: getMCPCacheStats called right after clearMCPCache reports size 0 and
\* no keys, and the first call of useMCP after clearMCPCache is not served
\* from the cache and, unless it finds no client, sends a request to the
\* model.
C20_ClearGivesFreshness ==
    /\ stats.rightAfterClear => (stats.size = 0 /\ stats.entries = {})
    /\ \A i \in Pair :
           hist[i].afterClear =>
               /\ ~hist[i].hit
               /\ hist[i].requests >= 1 \/ NoClientAtCall(i)

\* the statistics right after a clear that removed an entry
C20_StatsAfterClear ==
    /\ stats.rightAfterClear
    /\ stats.size = 0
    /\ \E i \in Pair : hist[i].stored

\* an invocation that was running when the cache was cleared stores its
\* result afterwards, and the first call after the clear is served that result
C20_StaleAfterClear ==
    \E i \in Pair, j \in Pair :
        /\ i # j
        /\ hist[j].afterClear
        /\ hist[j].hit
        /\ hist[i].stored
        /\ race[j].value = mcpCache[Key(i)].result

-----------------------------------------------------------------------------
(* Claims C21-C30 *)

\* The time invocation i took from its call to its result
OwnTime(i) == hist[i].finalized - hist[i].began

\* C21: the processingTimeMs of every result a call returns is the time from
\* the beginning of that call to the moment its result was built; a result
\* served from the cache in the step of the call reports 0.
C21_ProcessingTime ==
    \A i \in Inv :
        race[i].outcome = "result" =>
            /\ race[i].value.processingTimeMs = OwnTime(i)
            /\ hist[i].hit => race[i].value.processingTimeMs = 0

\* a call served from the cache at once reports the time of the invocation
\* that stored the result
C21_StaleTime ==
    \E i \in Inv :
        /\ race[i].outcome = "result"
        /\ hist[i].hit
        /\ OwnTime(i) = 0
        /\ race[i].value.processingTimeMs > 0

-----------------------------------------------------------------------------
(* validateLatexMCP on a text of its own *)

\* validateLatexMCP applied to the text at hand
Validate ==
    /\ latexCheck.latex # NoText
    /\ latexCheck.out = NoLatexCheck.out
    /\ latexCheck' = [latexCheck EXCEPT !.out = validateLatexMCP(latexCheck.latex)]
    /\ UNCHANGED <<openaiClient, mcpCache, now, ticks, call, proc, race, hist, cacheWriter,
                   parsed, sinceClear, stats, vision>>

MaxLatexLen == 4

LatexTokens == {"{", "}", "a", "1", "(", "\\begin", "$"}

LatexExamples ==
    { <<"{", "a", "{", "b", "}">>,
      <<"{", "a", "}", "{", "b", "}">>,
      <<"\\begin", "{", "a", "}", "\\end", "{", "a", "}">>,
      <<"\\begin", "{", "a", "}", "\\end", "{", "b", "}">>,
      <<"$", "a">>, <<"$", "a", "$">>, <<"[", "a">>, <<"[", "a", "]">>, <<"]", "[">>,
      <<"(", "a", ")">>, <<"\\x", " ", "a">>, <<"\\x", "{", "a", "}">>,
      <<"1", "+", "a">> }

MaxEnvs == 4

EnvItems ==
    { <<"\\begin", "{", "a", "}">>, <<"\\begin", "{", "b", "}">>,
      <<"\\end", "{", "a", "}">>, <<"\\end", "{", "b", "}">> }

RECURSIVE Flatten(_)
Flatten(items) == IF items = <<>> THEN <<>> ELSE Head(items) \o Flatten(Tail(items))

\* Texts of up to MaxEnvs \begin{..} and \end{..} of two environments
LatexEnvTexts == {Flatten(items) : items \in SeqsUpTo(EnvItems, MaxEnvs)}

LatexTexts == SeqsUpTo(LatexTokens, MaxLatexLen) \cup LatexExamples \cup LatexEnvTexts

\* The program before any call, with a text to validate
InitLatex ==
    /\ openaiClient = NULL
    /\ mcpCache = <<>>
    /\ now = 0
    /\ ticks = 0
    /\ call = [i \in Inv |-> NoArgs]
    /\ proc = [i \in Inv |-> IdleProc]
    /\ race = [i \in Inv |-> IdleRace]
    /\ hist = [i \in Inv |-> IdleHist]
    /\ cacheWriter = <<>>
    /\ parsed = NoParse
    /\ sinceClear = "none"
    /\ stats = NoStats
    /\ latexCheck \in {[latex |-> text, out |-> NoLatexCheck.out] : text \in LatexTexts}
    /\ vision = NoVision

NextLatex == Validate

SpecLatex == InitLatex /\ [][NextLatex]_vars

\* The number of elements c among the first n of s
Occurrences(s, c, n) == Cardinality({k \in 1..n : s[k] = c})

\* Some prefix has more "}" than "{", or the totals differ
UnbalancedBraces(s) ==
    \/ \E n \in 0..Len(s) : Occurrences(s, "}", n) > Occurrences(s, "{", n)
    \/ Occurrences(s, "}", Len(s)) # Occurrences(s, "{", Len(s))

\* A defect other than the braces
OtherDefect(s) == \E k \in 2..7 : Failed(LatexChecks(s)[k])

Mentions(feedback, item) == \E k \in 1..Len(feedback) : feedback[k] = item

\* C22: validateLatexMCP returns valid = false with a feedback that mentions
\* unbalanced curly braces for every text whose braces are unbalanced, valid =
\* true for a text with balanced braces and no other defect, and a feedback
\* exactly when valid is false.
C22_BraceBalance ==
    latexCheck.out # NoLatexCheck.out =>
        /\ UnbalancedBraces(latexCheck.latex) =>
              /\ ~latexCheck.out.valid
              /\ Mentions(latexCheck.out.feedback, "unbalanced curly braces {}")
        /\ (~UnbalancedBraces(latexCheck.latex) /\ ~OtherDefect(latexCheck.latex)) =>
              latexCheck.out.valid
        /\ ~UnbalancedBraces(latexCheck.latex) =>
              ~Mentions(latexCheck.out.feedback, "unbalanced curly braces {}")
        /\ latexCheck.out.valid <=> latexCheck.out.feedback = NoFeedback
        /\ latexCheck.latex = <<"{", "a", "}", "{", "b", "}">> => latexCheck.out.valid

\* "{a{b}" is rejected for its braces only
C22_Witness ==
    /\ latexCheck.latex = <<"{", "a", "{", "b", "}">>
    /\ ~latexCheck.out.valid
    /\ latexCheck.out.feedback = <<"LaTeX has issues: ", "unbalanced curly braces {}", ".">>

\* "}{" has equal totals and is rejected
C22_WitnessPrefix ==
    /\ latexCheck.latex = <<"}", "{">>
    /\ latexCheck.out # NoLatexCheck.out
    /\ ~latexCheck.out.valid

\* Invocation i takes a step: its call, a reply, a rejection or its timer
StepOf(i) == proc'[i] # proc[i] \/ race'[i] # race[i] \/ hist'[i] # hist[i]

\* What holds of an invocation called with useCache = false
Uncached(i) ==
    (Called(i) /\ ~call[i].useCache) =>
        /\ ~hist[i].hit
        /\ hist[i].foundAge = -1
        /\ ~hist[i].stored
        /\ hist[i].requests >= 1 \/ NoClientAtCall(i)

\* C23: an invocation with useCache = false is never served from the cache
\* and sends a request even when a fresh entry exists under its key, and none
\* of its steps changes the cache: no entry is evicted, added or replaced.
C23_NoCacheUse ==
    /\ [](\A i \in Inv : Uncached(i))
    /\ [][\A i \in Inv : (StepOf(i) /\ ~call'[i].useCache) => mcpCache' = mcpCache]_vars

\* a call with useCache = false has computed a result although a fresh entry
\* of its task stands under its key
C23_Witness ==
    \E i \in Inv :
        /\ ~call[i].useCache
        /\ race[i].outcome = "result"
        /\ hist[i].requests >= 1
        /\ Key(i) \in DOMAIN mcpCache
        /\ now - mcpCache[Key(i)].timestamp < CACHE_TTL_MS
        /\ mcpCache[Key(i)].task = call[i].task

\* a call with useCache = false has left a stale entry under its key
C23_WitnessStale ==
    \E i \in Inv :
        /\ ~call[i].useCache
        /\ race[i].outcome = "result"
        /\ Key(i) \in DOMAIN mcpCache
        /\ now - mcpCache[Key(i)].timestamp >= CACHE_TTL_MS

-----------------------------------------------------------------------------
\* SpecConf: the engine with validators whose confidence is low, zero or
\* absent: graded (valid, 1.0 or 0), plain (no confidence) and reject.
ConfArgs ==
    Args(Tasks, Inputs, Models, {Gpt35}, {FALSE}, Thresholds, Processors,
         {"graded", "plain", "reject"})

NextConf ==
    \/ \E d \in TickSteps : Tick(d)
    \/ initializeOpenAI
    \/ \E i \in Inv, a \in ConfArgs : Sequential /\ useMCP(i, a)
    \/ \E i \in Inv : TimerFires(i)
    \/ \E i \in Inv, text \in Responses : InitialResponse(i, text)
    \/ \E i \in Inv, text \in Responses : RefinementResponse(i, text)
    \/ \E i \in Inv, text \in Responses : FallbackResponse(i, text)
    \/ \E i \in Inv : SubmitFails(i)
    \/ \E i \in Inv : FallbackFails(i)

SpecConf == Init /\ [][NextConf]_vars

\* The condition under which the loop goes on
Unsatisfied(i, valid, confidence, iterations) ==
    /\ ~valid \/ confidence < call[i].confidenceThreshold
    /\ iterations < call[i].maxIterations

\* C24: a result of the primary path is returned either after a validation
\* that was valid with a current confidence of at least the threshold, or
\* with iterations = maxIterations; a refinement request is outstanding only
\* after a validation that was not valid or left the confidence below the
\* threshold, with iterations below maxIterations, and the procedure returns
\* only when that is not the case.
C24_LoopExit ==
    \A i \in Inv :
        /\ (race[i].outcome = "result" /\ hist[i].path = "primary") =>
               /\ \/ hist[i].lastValid /\ race[i].value.confidence >= call[i].confidenceThreshold
                  \/ race[i].value.iterations = call[i].maxIterations
               /\ ~Unsatisfied(i, hist[i].lastValid, race[i].value.confidence,
                               race[i].value.iterations)
               /\ hist[i].requests = race[i].value.iterations
        /\ proc[i].pc = "awaitRefine" =>
               /\ Unsatisfied(i, proc[i].valid, proc[i].confidence, proc[i].iterations)
               /\ hist[i].requests = proc[i].iterations + 1

\* a valid result with a confidence below the threshold is refined up to
\* maxIterations and returned
C24_Witness ==
    \E i \in Inv :
        /\ race[i].outcome = "result"
        /\ hist[i].path = "primary"
        /\ hist[i].lastValid
        /\ race[i].value.confidence < call[i].confidenceThreshold
        /\ race[i].value.iterations = call[i].maxIterations
        /\ call[i].maxIterations >= 2

\* a valid result with a confidence of at least the threshold is returned
\* before maxIterations
C24_WitnessEarly ==
    \E i \in Inv :
        /\ race[i].outcome = "result"
        /\ hist[i].path = "primary"
        /\ call[i].validateResult = "graded"
        /\ race[i].value.iterations < call[i].maxIterations

-----------------------------------------------------------------------------
\* SpecPrompt: the engine with calls of maxIterations = MaxIter + 1, that is
\* with more than one refinement, and a validator that rejects every result.
PromptArgs ==
    [task : Tasks, input : Inputs, model : Models, temperature : Temperatures,
     maxIterations : {MaxIter + 1}, fallbackModel : {Gpt35}, timeout : {DefaultTimeout},
     useCache : {FALSE}, confidenceThreshold : Thresholds, processOutput : Processors,
     validateResult : {"reject"}]

NextPrompt ==
    \/ \E d \in TickSteps : Tick(d)
    \/ initializeOpenAI
    \/ \E i \in Inv, a \in PromptArgs : Sequential /\ useMCP(i, a)
    \/ \E i \in Inv : TimerFires(i)
    \/ \E i \in Inv, text \in Responses : InitialResponse(i, text)
    \/ \E i \in Inv, text \in Responses : RefinementResponse(i, text)
    \/ \E i \in Inv, text \in Responses : FallbackResponse(i, text)
    \/ \E i \in Inv : SubmitFails(i)
    \/ \E i \in Inv : FallbackFails(i)

SpecPrompt == Init /\ [][NextPrompt]_vars

\* The result text of the last reply invocation i has received
LastRawResult(i) == extractMCPComponents(Content(hist[i].lastText)).result

\* C25: the refinement request that is outstanding after k round-trips
\* carries as previous result the result text parsed from the reply of
\* round-trip k.
C25_PreviousResult ==
    \A i \in Inv :
        proc[i].pc = "awaitRefine" =>
            /\ proc[i].request.kind = "refinement"
            /\ proc[i].request.previousResult = LastRawResult(i)

\* the second refinement request carries the result of the first reply, not
\* that of the second
C25_StaleResult ==
    \E i \in Inv :
        /\ proc[i].pc = "awaitRefine"
        /\ hist[i].roundTrips = 2
        /\ proc[i].request.previousResult # LastRawResult(i)
        /\ proc[i].request.previousResult =
               extractMCPComponents(Content(hist[i].firstText)).result

\* The confidence of an outcome, or prev when the outcome has none
Tracked(confidence, prev) == IF confidence = NoConf THEN prev ELSE confidence

AfterFirstValidation(i) == Tracked(FirstOutcome(i).confidence, DefaultConfidence)

AfterSecondValidation(i) == Tracked(LastOutcome(i).confidence, AfterFirstValidation(i))

\* Invocation i waits for a refinement or has returned on the primary path
Validated(i) ==
    \/ proc[i].pc = "awaitRefine"
    \/ race[i].outcome = "result" /\ hist[i].path = "primary"

CurrentConfidence(i) ==
    IF proc[i].pc = "awaitRefine" THEN proc[i].confidence ELSE race[i].value.confidence

\* C26: after the first validation the current confidence is the confidence
\* of the outcome, 0 included, or 0.5 when the outcome has none; after the
\* first refinement it is the confidence of the new outcome, 0 included, or
\* the previous confidence when the new outcome has none.
C26_ConfidenceTracking ==
    \A i \in Inv :
        Validated(i) =>
            /\ hist[i].roundTrips = 1 => CurrentConfidence(i) = AfterFirstValidation(i)
            /\ hist[i].roundTrips = 2 => CurrentConfidence(i) = AfterSecondValidation(i)

\* a first outcome of confidence 0 leaves the current confidence at 0.5
C26_ZeroBecomesDefault ==
    \E i \in Inv :
        /\ proc[i].pc = "awaitRefine"
        /\ hist[i].roundTrips = 1
        /\ FirstOutcome(i).confidence = 0
        /\ proc[i].confidence = DefaultConfidence

\* a refinement outcome without confidence leaves the previous confidence
C26_Retained ==
    \E i \in Inv :
        /\ Validated(i)
        /\ hist[i].roundTrips = 2
        /\ LastOutcome(i).confidence = NoConf
        /\ CurrentConfidence(i) = AfterFirstValidation(i)

-----------------------------------------------------------------------------
\* SpecThrow: the engine with caller-supplied functions that raise: the
\* processor "parse" on an empty result, the validator "partial" on a result
\* that is not plain.
ThrowResponses == {RespFull, RespLatex, RespEmpty}

ThrowArgs ==
    Args(Tasks, Inputs, Models, {Gpt35}, {FALSE}, Thresholds, {"parse"}, {"partial", "reject"})

NextThrow ==
    \/ \E d \in TickSteps : Tick(d)
    \/ initializeOpenAI
    \/ \E i \in Inv, a \in ThrowArgs : Sequential /\ useMCP(i, a)
    \/ \E i \in Inv : TimerFires(i)
    \/ \E i \in Inv, text \in ThrowResponses : InitialResponse(i, text)
    \/ \E i \in Inv, text \in ThrowResponses : RefinementResponse(i, text)
    \/ \E i \in Inv, text \in ThrowResponses : FallbackResponse(i, text)
    \/ \E i \in Inv : SubmitFails(i)
    \/ \E i \in Inv : FallbackFails(i)

SpecThrow == Init /\ [][NextThrow]_vars

\* C27: an invocation has sent a request to the fallback model only if a
\* request of it to the primary model was rejected; an exception of
\* processOutput or validateResult and a reply that does not satisfy the
\* validator lead to no such request.
C27_FallbackOnlyAfterSubmitFailure ==
    \A i \in Inv : hist[i].fallbackRequests >= 1 => hist[i].submitFailed

\* the fallback model is requested after processOutput or validateResult
\* raised on a reply of the primary model
C27_FallbackAfterThrow ==
    \E i \in Inv :
        /\ hist[i].fallbackRequests = 1
        /\ ~hist[i].submitFailed
        /\ hist[i].threw
        /\ hist[i].roundTrips >= 1

-----------------------------------------------------------------------------
\* The requests invocation i has sent to either model
Sent(i) == hist[i].requests + hist[i].fallbackRequests

\* C28: an invocation whose timer has fired has sent no request since, be it
\* a refinement request or a request to the fallback model.
C28_NoWorkAfterTimeout ==
    \A i \in Inv : hist[i].timedOut => Sent(i) = hist[i].sentAtTimeout

\* a refinement request is sent after the timeout
C28_LateRefinement ==
    \E i \in Inv :
        /\ hist[i].timedOut
        /\ race[i].outcome = "timeout"
        /\ hist[i].requests = hist[i].sentAtTimeout + 1
        /\ proc[i].pc = "awaitRefine"

\* a request to the fallback model is sent after the timeout
C28_LateFallback ==
    \E i \in Inv :
        /\ hist[i].timedOut
        /\ race[i].outcome = "timeout"
        /\ hist[i].fallbackRequests = 1
        /\ Sent(i) = hist[i].sentAtTimeout + 1

-----------------------------------------------------------------------------
\* The parser took the whole response as the result (the return of line 318)
WholeResponse ==
    /\ parsed.out # NoOut
    /\ parsed.out.thinking = <<>>
    /\ parsed.out.result = Trim(parsed.text)

\* C29: the parser takes the whole response as the result exactly when the
\* text has neither a thinking tag pair nor a result tag pair, and for a text
\* with a result tag pair the returned result is the trimmed text between the
\* tags, empty or not.
C29_WholeResponseIffNoPair ==
    parsed.out # NoOut =>
        /\ WholeResponse <=>
              (~HasPair("thinking", parsed.text) /\ ~HasPair("result", parsed.text))
        /\ HasPair("result", parsed.text) =>
              parsed.out.result = Captured("result", parsed.text)

\* a result tag pair with nothing between the tags is returned with its tags
C29_EmptyPairTakenWhole ==
    /\ parsed.text \in {<<"<result>", "</result>">>, <<"<result>", " ", "</result>">>}
    /\ Captured("result", parsed.text) = <<>>
    /\ parsed.out.result = parsed.text

\* C30 as stated: when the whole response is taken as the result, the
\* returned confidence is the default 0.5.
C30_DegenerateDefault ==
    WholeResponse => parsed.out.confidence = DefaultConfidence

\* C30: when the whole response is taken as the result, the returned
\* confidence is the number of the confidence tag pair when the text has one
\* whose trimmed content parses as a number of [0, 1], and the default 0.5
\* otherwise.
C30_DegenerateConfidence ==
    WholeResponse =>
        parsed.out.confidence =
            IF HasPair("confidence", parsed.text) /\ InUnitRange(CapturedNumber)
            THEN CapturedNumber
            ELSE DefaultConfidence

\* a text of a confidence tag pair alone: taken whole, with its confidence
C30_Witness ==
    /\ parsed.text = ConfidenceText(<<>>, "0.9", <<>>, <<>>)
    /\ WholeResponse
    /\ parsed.out.confidence = 9

\* an untagged text: taken whole, with the default confidence
C30_WitnessDefault ==
    /\ parsed.text = <<"x">>
    /\ WholeResponse
    /\ parsed.out.confidence = DefaultConfidence

-----------------------------------------------------------------------------
(* Claims C31-C38 *)

\* SpecCollide: one caller whose tasks, inputs and models may hold the
\* separator of the cache key; the model answers every request.
CollideTasks == {<<"a">>, <<"a", "_", "b">>}
CollideInputs == {<<"c">>, <<"b", "_", "c">>, <<"c", "_", "gpt-4o">>}
CollideModels == {<<"mini">>, <<"gpt-4o", "_", "mini">>}

CollideArgs ==
    [task : CollideTasks, input : CollideInputs, model : CollideModels,
     temperature : Temperatures, maxIterations : {1}, fallbackModel : {NoModel},
     timeout : {DefaultTimeout}, useCache : {TRUE},
     confidenceThreshold : Thresholds, processOutput : Processors,
     validateResult : {"accept"}]

NextCollide ==
    \/ initializeOpenAI
    \/ \E a \in CollideArgs : useMCP(1, a)
    \/ InitialResponse(1, RespFull)

SpecCollide == Init /\ [][NextCollide]_vars

\* The task, input, model and temperature of invocation i
Tuple(i) == <<call[i].task, call[i].input, call[i].model, call[i].temperature>>

\* C31: a result served from the cache was stored by an invocation with the
\* same task, input, model and temperature as the call it is served to.
C31_CacheHitSoundness ==
    \A i \in Inv : hist[i].hit => hist[i].servedTuple = Tuple(i)

\* a call is served the result of another input and model of the same task
C31_ServedAcrossTuples ==
    \E i \in Inv :
        /\ hist[i].hit
        /\ call[i].input = <<"c">>
        /\ call[i].model = <<"gpt-4o", "_", "mini">>
        /\ hist[i].servedTuple[1] = call[i].task
        /\ hist[i].servedTuple[2] = <<"c", "_", "gpt-4o">>
        /\ hist[i].servedTuple[3] = <<"mini">>

\* tasks that give the same key are told apart by the task of the entry
C31_TaskChecked ==
    \A i \in Inv : hist[i].hit => hist[i].servedTuple[1] = call[i].task

-----------------------------------------------------------------------------
\* SpecReported: one caller with the cache in use, replies that report a
\* confidence of their own (RespFull) and replies that report none, and
\* validators that return a confidence (accept) or none (plain).
ReportedArgs ==
    Args(Tasks, Inputs, Models, {Gpt35}, {TRUE, FALSE}, Thresholds, Processors,
         {"accept", "plain"})

NextReported ==
    \/ \E d \in TickSteps : Tick(d)
    \/ initializeOpenAI
    \/ \E i \in Inv, a \in ReportedArgs : Sequential /\ useMCP(i, a)
    \/ \E i \in Inv : TimerFires(i)
    \/ \E i \in Inv, text \in Responses : InitialResponse(i, text)
    \/ \E i \in Inv, text \in Responses : RefinementResponse(i, text)
    \/ \E i \in Inv, text \in Responses : FallbackResponse(i, text)
    \/ \E i \in Inv : SubmitFails(i)
    \/ \E i \in Inv : FallbackFails(i)

SpecReported == Init /\ [][NextReported]_vars

\* The validator of invocation i never returns a confidence
NeverSupplies(i) ==
    \A text \in Responses : SuppliedFor(call[i], text) = {}

\* C32 as stated: the confidence of every returned result is 0.5 or a
\* confidence validateResult returned in that invocation, and with a
\* validator that returns none and a threshold above 0.5 the invocation has
\* performed exactly maxIterations round-trips.
C32_ValidatorConfidenceOnly ==
    \A i \in Inv :
        race[i].outcome = "result" =>
            /\ race[i].value.confidence \in {DefaultConfidence} \cup hist[i].supplied
            /\ (NeverSupplies(i) /\ call[i].confidenceThreshold > DefaultConfidence) =>
                   hist[i].roundTrips = call[i].maxIterations

\* C32: the confidence of a result returned by an invocation that missed the
\* cache is 0.5 or a confidence validateResult returned in that invocation,
\* never the one the reply reports; with a validator that returns none and a
\* threshold above 0.5, an invocation that returns on the primary path has
\* performed exactly maxIterations round-trips, valid first result or not; a
\* result served from the cache is the stored one, with its confidence.
C32_ReportedConfidenceUnused ==
    \A i \in Inv :
        race[i].outcome = "result" =>
            /\ ~hist[i].hit =>
                   race[i].value.confidence \in {DefaultConfidence} \cup hist[i].supplied
            /\ (hist[i].path = "primary" /\ NeverSupplies(i)
                  /\ call[i].confidenceThreshold > DefaultConfidence) =>
                   /\ hist[i].roundTrips = call[i].maxIterations
                   /\ race[i].value.confidence = DefaultConfidence
            /\ hist[i].hit =>
                   /\ Key(i) \in DOMAIN cacheWriter
                   /\ race[i].value = cacheWriter[Key(i)].entry.result
                   /\ hist[i].roundTrips = 0

\* a first reply that is valid and reports 0.9 is refined all the same, and
\* the result has the default confidence
C32_Witness ==
    \E i \in Inv :
        /\ race[i].outcome = "result"
        /\ hist[i].path = "primary"
        /\ call[i].validateResult = "plain"
        /\ call[i].maxIterations >= 2
        /\ hist[i].firstText = RespFull
        /\ extractMCPComponents(Content(RespFull)).confidence = 9
        /\ hist[i].roundTrips = call[i].maxIterations
        /\ race[i].value.confidence = DefaultConfidence

\* a call served from the cache: no validation, the stored confidence
C32_WitnessHit ==
    \E i \in Inv :
        /\ hist[i].hit
        /\ hist[i].supplied = {}
        /\ race[i].value.confidence = 10

-----------------------------------------------------------------------------
\* The text has an odd number of "$"
OddDollars(s) == Occurrences(s, "$", Len(s)) % 2 = 1

\* C33: for a text with an odd number of "$" validateLatexMCP returns valid =
\* false with a feedback that lists the unbalanced dollar signs, and for a
\* text with an even number the feedback does not list them.
C33_DollarBalance ==
    latexCheck.out # NoLatexCheck.out =>
        /\ OddDollars(latexCheck.latex) =>
              /\ ~latexCheck.out.valid
              /\ Mentions(latexCheck.out.feedback, "unbalanced dollar signs $")
        /\ ~OddDollars(latexCheck.latex) =>
              ~Mentions(latexCheck.out.feedback, "unbalanced dollar signs $")

\* a text with one "$" and no other defect is found valid
C33_OddDollarsAccepted ==
    /\ latexCheck.latex = <<"$", "a">>
    /\ latexCheck.out.valid

\* no text at all has the dollar signs listed in its feedback
C33_NeverListed ==
    ~Mentions(latexCheck.out.feedback, "unbalanced dollar signs $")

-----------------------------------------------------------------------------
\* The positions at which the pattern of tok ("\\begin" or "\\end") matches
\* in a scan from position i on
RECURSIVE EnvStarts(_, _, _)
EnvStarts(s, tok, i) ==
    IF i > Len(s) THEN {}
    ELSE IF s[i] = tok /\ i + 1 <= Len(s) /\ s[i + 1] = "{" /\ NameEnd(s, i + 2) > i + 2
    THEN {i} \cup EnvStarts(s, tok, NameEnd(s, i + 2) + 1)
    ELSE EnvStarts(s, tok, i + 1)

EnvName(s, i) == SubSeq(s, i + 2, NameEnd(s, i + 2) - 1)

\* The \begin{X} and \end{X} of the text in the order of the text
RECURSIVE EnvEvents(_, _)
EnvEvents(s, i) ==
    IF i > Len(s) THEN <<>>
    ELSE IF i \in EnvStarts(s, "\\begin", 1)
    THEN << <<"begin", EnvName(s, i)>> >> \o EnvEvents(s, i + 1)
    ELSE IF i \in EnvStarts(s, "\\end", 1)
    THEN << <<"end", EnvName(s, i)>> >> \o EnvEvents(s, i + 1)
    ELSE EnvEvents(s, i + 1)

\* Every \end{X} closes the innermost open \begin{X}, and none stays open
RECURSIVE WellNested(_, _)
WellNested(events, open) ==
    IF events = <<>> THEN open = <<>>
    ELSE IF Head(events)[1] = "begin"
    THEN WellNested(Tail(events), <<Head(events)[2]>> \o open)
    ELSE /\ open # <<>>
         /\ Head(open) = Head(events)[2]
         /\ WellNested(Tail(events), Tail(open))

ProperlyNested(s) == WellNested(EnvEvents(s, 1), <<>>)

\* C34: validateLatexMCP lists unbalanced environments exactly for the texts
\* in which some \begin{X} is not closed by a later matching \end{X} in
\* properly nested order.
C34_EnvironmentNesting ==
    latexCheck.out # NoLatexCheck.out =>
        (Mentions(latexCheck.out.feedback, "unbalanced LaTeX environments")
            <=> ~ProperlyNested(latexCheck.latex))

\* properly nested distinct environments are rejected
C34_NestedRejected ==
    /\ latexCheck.latex = <<"\\begin", "{", "a", "}", "\\begin", "{", "b", "}",
                            "\\end", "{", "b", "}", "\\end", "{", "a", "}">>
    /\ ~latexCheck.out.valid
    /\ Mentions(latexCheck.out.feedback, "unbalanced LaTeX environments")

\* an \end{a} that precedes its \begin{a} is accepted
C34_ReversedAccepted ==
    /\ latexCheck.latex = <<"\\end", "{", "a", "}", "\\begin", "{", "a", "}">>
    /\ latexCheck.out.valid

-----------------------------------------------------------------------------
\* SpecProvenance: one caller without the cache, processors that trim and
\* that lower the case, replies whose results differ, and validators that
\* accept every result or the result "a" only.
ProvenanceResponses == {RespFull, RespLatex, RespUpper}

ProvenanceArgs ==
    Args(Tasks, Inputs, Models, {Gpt35}, {FALSE}, Thresholds, {"trim", "lower"},
         {"accept", "exact"})

NextProvenance ==
    \/ \E d \in TickSteps : Tick(d)
    \/ initializeOpenAI
    \/ \E i \in Inv, a \in ProvenanceArgs : Sequential /\ useMCP(i, a)
    \/ \E i \in Inv : TimerFires(i)
    \/ \E i \in Inv, text \in ProvenanceResponses : InitialResponse(i, text)
    \/ \E i \in Inv, text \in ProvenanceResponses : RefinementResponse(i, text)
    \/ \E i \in Inv, text \in ProvenanceResponses : FallbackResponse(i, text)
    \/ \E i \in Inv : SubmitFails(i)
    \/ \E i \in Inv : FallbackFails(i)

SpecProvenance == Init /\ [][NextProvenance]_vars

\* C35: a result of the primary path has processOutput of the result parsed
\* from the first reply as initialResult, processOutput of the result parsed
\* from the last reply received as finalResult, the primary model as model,
\* and finalResult equal to initialResult when iterations is 1; a result of
\* the fallback path has processOutput of the result parsed from the fallback
\* reply as finalResult and the fallback model as model.
C35_ResultProvenance ==
    \A i \in Inv :
        race[i].outcome = "result" =>
            /\ hist[i].path = "primary" =>
                   /\ race[i].value.initialResult = Processed(i, hist[i].firstText).value
                   /\ race[i].value.finalResult = Processed(i, hist[i].lastText).value
                   /\ race[i].value.model = call[i].model
                   /\ race[i].value.iterations = 1 =>
                          race[i].value.finalResult = race[i].value.initialResult
            /\ hist[i].path = "fallback" =>
                   /\ hist[i].fallbackRequests = 1
                   /\ race[i].value.finalResult = Processed(i, hist[i].lastText).value
                   /\ race[i].value.model = call[i].fallbackModel

\* a refined result: the final result comes from the second reply, lowered
\* and trimmed, and differs from the initial one
C35_Witness ==
    \E i \in Inv :
        /\ race[i].outcome = "result"
        /\ hist[i].path = "primary"
        /\ call[i].processOutput = "lower"
        /\ race[i].value.iterations = 2
        /\ hist[i].firstText = RespLatex
        /\ hist[i].lastText = RespUpper
        /\ race[i].value.initialResult = <<"\\", "x">>
        /\ race[i].value.finalResult = <<"a">>

\* a result of the fallback model after a reply of the primary model
C35_WitnessFallback ==
    \E i \in Inv :
        /\ race[i].outcome = "result"
        /\ hist[i].path = "fallback"
        /\ hist[i].roundTrips = 2
        /\ hist[i].firstText = RespLatex
        /\ hist[i].lastText = RespUpper
        /\ race[i].value.finalResult = <<"A">>
        /\ race[i].value.model = Gpt35

-----------------------------------------------------------------------------
\* C36: no call is served from the cache a result stored by an invocation
\* that had started before a clearMCPCache and was running when it was
\* called.
C36_NoRepopulation ==
    \A i \in Pair : hist[i].hit => ~hist[i].servedOld

\* the entry of the cache was written after the clear by an invocation that
\* had started before it, and a later call is served that entry
C36_ServedFromBeforeClear ==
    \E i \in Pair, j \in Pair :
        /\ i # j
        /\ hist[i].clearedOver
        /\ hist[i].stored
        /\ hist[j].hit
        /\ hist[j].servedOld
        /\ race[j].value = race[i].value

\* an entry written before the clear is never served after it
C36_ClearedEntriesGone ==
    \A i \in Pair : (hist[i].hit /\ hist[i].afterClear) => hist[i].servedOld

-----------------------------------------------------------------------------
\* SpecEvict: one caller, with and without the cache, whose three pairs of
\* task and input give two keys, one of them for two different tasks; the clock passes the
\* lifetime of an entry, and the cache is cleared and inspected at any moment.
EvictCalls ==
    { <<<<"a">>, <<"c">>>>, <<<<"a">>, <<"b", "_", "c">>>>, <<<<"a", "_", "b">>, <<"c">>>> }

EvictArgs ==
    {a \in [task : CollideTasks, input : {<<"c">>, <<"b", "_", "c">>}, model : Models,
            temperature : Temperatures, maxIterations : {1}, fallbackModel : {NoModel},
            timeout : {DefaultTimeout}, useCache : {TRUE, FALSE},
            confidenceThreshold : Thresholds, processOutput : Processors,
            validateResult : {"accept"}] :
        <<a.task, a.input>> \in EvictCalls}

NextEvict ==
    \/ \E d \in TickSteps : Tick(d)
    \/ initializeOpenAI
    \/ \E a \in EvictArgs : useMCP(1, a)
    \/ TimerFires(1)
    \/ InitialResponse(1, RespFull)
    \/ clearMCPCache
    \/ getMCPCacheStats

SpecEvict == Init /\ [][NextEvict]_vars

\* The step is a call of clearMCPCache
ClearStep == mcpCache' = <<>> /\ call' = call /\ proc' = proc /\ race' = race

\* The step is a call of useMCP with the cache in use whose key is k and which
\* finds the entry of k expired or stored under another task
EvictingLookup(k) ==
    \E i \in Inv :
        /\ Free(i)
        /\ StepOf(i)
        /\ call'[i].useCache
        /\ cacheKey(call'[i]) = k
        /\ \/ now - mcpCache[k].timestamp >= CACHE_TTL_MS
           \/ mcpCache[k].task # call'[i].task
        /\ mcpCache' = CacheDelete(mcpCache, k)

\* C37: a key leaves the store only in a call of clearMCPCache or in a call
\* of useMCP with useCache = true and exactly that key, which finds its entry
\* expired or stored under another task; getMCPCacheStats leaves the store as
\* it is and reports every key of the store, expired ones included, with a
\* size equal to the number of keys it lists.
C37_LazyEvictionOnly ==
    /\ [][\A k \in DOMAIN mcpCache :
             k \notin DOMAIN mcpCache' => (ClearStep \/ EvictingLookup(k))]_vars
    /\ [][stats' # stats =>
             /\ mcpCache' = mcpCache
             /\ stats'.entries = DOMAIN mcpCache
             /\ stats'.size = Cardinality(stats'.entries)]_vars
    /\ [](stats # NoStats =>
             /\ stats.size = Cardinality(stats.entries)
             /\ stats.expired \subseteq stats.entries)

\* the statistics count an entry that had expired and was still in the store
C37_Witness ==
    /\ stats.size >= 1
    /\ stats.expired # {}
    /\ stats.expired \subseteq DOMAIN mcpCache

\* an entry stored under one task was removed by the lookup of another task
\* with the same key, and the store holds the result of that other task
C37_WitnessTask ==
    \E i \in Inv :
        /\ hist[i].foundAge = 0
        /\ ~hist[i].hit
        /\ hist[i].stored
        /\ Len(call[i].task) = 3
        /\ mcpCache[Key(i)].task = call[i].task

-----------------------------------------------------------------------------
(* The vision adapter: imageToLatex (openai.ts) and imageToLatexMCP
   (math-mcp.ts) *)

\* openai.ts, lines 138-139 and 181-182: the text between the result tags,
\* or the whole content when the pattern does not match
VisionResult(content) ==
    IF TagMatch("result", content)[1] # 0 THEN Captured("result", content) ELSE content

\* A second request whatever the validation says
NeedsRefinementAlways(validation) == TRUE

\* openai.ts, line 145
NeedsRefinement(validation) == ~validation.valid

\* math-mcp.ts, lines 167-179: the call of useMCP with the candidate
VisionArgs(initialLatex) ==
    [task |-> <<"verify and refine the LaTeX extracted from an image for mathematical accuracy and consistency">>,
     input |-> initialLatex, model |-> Gpt4o, temperature |-> 1,
     maxIterations |-> 3, fallbackModel |-> Gpt35, timeout |-> DefaultTimeout,
     useCache |-> TRUE, confidenceThreshold |-> DefaultThreshold,
     processOutput |-> "trim", validateResult |-> "latex"]

\* imageToLatex returns latex, and imageToLatexMCP goes on to call useMCP
\* (math-mcp.ts, lines 164-167)
HandOver(v, latex) ==
    /\ vision' = [v EXCEPT !.pc = "handed", !.candidate = latex,
                           !.completed = TRUE, !.handed = TRUE]
    /\ useMCPCall(1, VisionArgs(latex))

\* A call of imageToLatexMCP, up to readFileAsBase64 (openai.ts, lines 79-82)
imageToLatexMCP ==
    /\ vision.pc \in {"idle", "handed", "failed"}
    /\ Sequential
    /\ vision' = [NoVision EXCEPT !.pc = IF openaiClient = NULL THEN "failed" ELSE "reading"]
    /\ UNCHANGED <<openaiClient, mcpCache, now, ticks, call, proc, race, hist, cacheWriter,
                   parsed, sinceClear, stats, latexCheck>>

\* The file is read and the first request is sent (openai.ts, lines 82-130)
FileRead ==
    /\ vision.pc = "reading"
    /\ vision' = [vision EXCEPT !.pc = "awaitFirst", !.requests = 1]
    /\ UNCHANGED <<openaiClient, mcpCache, now, ticks, call, proc, race, hist, cacheWriter,
                   parsed, sinceClear, stats, latexCheck>>

\* The file cannot be read (openai.ts, line 302)
FileReadFails ==
    /\ vision.pc = "reading"
    /\ vision' = [vision EXCEPT !.pc = "failed"]
    /\ UNCHANGED <<openaiClient, mcpCache, now, ticks, call, proc, race, hist, cacheWriter,
                   parsed, sinceClear, stats, latexCheck>>

\* lines 142-187 of openai.ts for a first content whose result is validated
\* as validation
FirstChecked(v, validation) ==
    IF NeedsRefinement(validation)
    THEN /\ vision' = [v EXCEPT !.pc = "awaitRefine", !.requests = @ + 1,
                                !.feedback = validation.feedback]
         /\ UNCHANGED <<openaiClient, mcpCache, now, ticks, call, proc, race, hist,
                        cacheWriter, parsed, sinceClear, stats, latexCheck>>
    ELSE HandOver(v, v.result)

\* The reply to the first request arrives (openai.ts, lines 132-145)
VisionResponse(text) ==
    /\ vision.pc = "awaitFirst"
    /\ FirstChecked([vision EXCEPT !.lastText = Trim(text),
                                   !.thinking = Captured("thinking", Trim(text)),
                                   !.result = VisionResult(Trim(text)),
                                   !.validations = @ + 1,
                                   !.firstValid = validateLatexMCP(VisionResult(Trim(text))).valid],
                    validateLatexMCP(VisionResult(Trim(text))))

\* The reply to the refinement request arrives (openai.ts, lines 178-184)
VisionRefinement(text) ==
    /\ vision.pc = "awaitRefine"
    /\ HandOver([vision EXCEPT !.lastText = Trim(text)], VisionResult(Trim(text)))

\* A request of imageToLatex is rejected (openai.ts, lines 188-191, and
\* math-mcp.ts, lines 180-183)
VisionRequestFails ==
    /\ vision.pc \in {"awaitFirst", "awaitRefine"}
    /\ vision' = [vision EXCEPT !.pc = "failed"]
    /\ UNCHANGED <<openaiClient, mcpCache, now, ticks, call, proc, race, hist, cacheWriter,
                   parsed, sinceClear, stats, latexCheck>>

\* Replies to the requests of imageToLatex: a tagged valid result, a tagged
\* result with an open brace, untagged texts that are valid and not, nothing
VisionTexts ==
    { <<"<thinking>", "t", "</thinking>", "<result>", " ", "{", "a", "}", "</result>">>,
      <<"<result>", "{", "a", "</result>">>,
      <<" ", "{", "a", "}">>,
      <<"}", "{">>,
      <<>> }

\* SpecVision: imageToLatexMCP called again and again by one caller, with
\* the engine answering the calls of useMCP it makes.
NextVision ==
    \/ initializeOpenAI
    \/ imageToLatexMCP
    \/ FileRead
    \/ FileReadFails
    \/ \E text \in VisionTexts : VisionResponse(text)
    \/ \E text \in VisionTexts : VisionRefinement(text)
    \/ VisionRequestFails
    \/ InitialResponse(1, RespLatex)
    \/ RefinementResponse(1, RespLatex)
    \/ FallbackResponse(1, RespLatex)
    \/ SubmitFails(1)
    \/ FallbackFails(1)

SpecVision == Init /\ [][NextVision]_vars

\* C38: imageToLatex sends at most two requests; it has sent the second one
\* exactly when validateLatexMCP has rejected the result extracted from the
\* first reply; the result extracted from the second reply is what it
\* returns, with no second validation; and every call of useMCP is made in
\* the step in which imageToLatex returns, with what it returns as input,
\* never after a failure of imageToLatex.
C38_VisionAdapter ==
    /\ [](/\ vision.requests <= 2
          /\ vision.validations <= 1
          /\ vision.requests = 2 <=> (vision.validations = 1 /\ ~vision.firstValid)
          /\ (vision.completed /\ vision.requests = 2) =>
                 vision.candidate = VisionResult(vision.lastText)
          /\ (vision.completed /\ vision.requests = 1) =>
                 /\ vision.firstValid
                 /\ vision.candidate = VisionResult(vision.lastText)
          /\ vision.handed <=> vision.completed
          /\ vision.handed =>
                 /\ call[1].input = vision.candidate
                 /\ call[1].validateResult = "latex"
          /\ vision.pc = "failed" => ~vision.handed)
    /\ [][(Free(1) /\ StepOf(1)) =>
             /\ vision.pc \in {"awaitFirst", "awaitRefine"}
             /\ vision'.completed
             /\ call'[1].input = vision'.candidate]_vars

\* the first result was rejected, and the second one, which is not valid
\* either, has been returned as it is and passed to useMCP
C38_Witness ==
    /\ vision.handed
    /\ vision.requests = 2
    /\ vision.validations = 1
    /\ ~vision.firstValid
    /\ ~validateLatexMCP(vision.candidate).valid
    /\ call[1].input = vision.candidate
    /\ hist[1].requests >= 1

\* a valid first result is passed to useMCP after one request
C38_WitnessValid ==
    /\ vision.handed
    /\ vision.requests = 1
    /\ vision.firstValid
    /\ vision.candidate = <<"{", "a", "}">>
    /\ race[1].outcome = "result"

\* the refinement request was rejected: no call of useMCP
C38_WitnessFailure ==
    /\ vision.pc = "failed"
    /\ vision.requests = 2
    /\ ~Called(1)

=============================================================================
